---- MODULE Spec2Model ----
(***************************************************************************)
(* A model of the family game library: the preference service and hook,     *)
(* the catalogue search hook, and the games / ownership services with the   *)
(* add-game flows.  The document store is modelled as its collections; an   *)
(* awaited store call is one step of the operation that makes it.           *)
(***************************************************************************)
EXTENDS Integers, Sequences, FiniteSets, TLC

VARIABLES
  prefs,          \* collection userGamePreferences: doc id -> document or NoDoc
  calls,          \* service calls in flight on the preference collection
  currentUser,    \* useAuth().currentUser seen by useUserPreferences
  preferences,    \* useUserPreferences: Map<gameId, UserGamePreference>
  loading,        \* useUserPreferences: loading
  prefError,      \* useUserPreferences: error
  fetchPending,   \* the fetchPreferences effect is scheduled and has not run
  hookLog,        \* the last hook actions run in a row on one game
  returned,       \* the service call that returned last (NoCall: none yet)
  latestSearchId, \* useBGGSearch: latestSearchIdRef.current
  searchResults,  \* useBGGSearch: searchResults
  searchError,    \* useBGGSearch: error
  searching,      \* useBGGSearch: searching
  selectedGame,   \* useBGGSearch: selectedGame
  loadingDetails, \* useBGGSearch: loadingDetails
  searchCalls,    \* bggService.searchGames calls awaited: [searchId, query]
  detailCalls,    \* bggService.getGameDetails calls awaited: bggId
  lastResponse,   \* the searchGames call that resolved last and how
  clearedAt,      \* latestSearchIdRef.current when the results were cleared
  games,          \* collection games, in document id order
  ownership,      \* collection ownership, in document id order
  adds,           \* per client: its add-game operation and where it is
  dialog,         \* AddGameDialog of client c1: the selected search result
  view,           \* what getOwnedGames(ByHousehold) just returned
  docCount,       \* documents addDoc has created, per collection
  night,          \* GameNightPage: games, filters, preferences, spin state
  wheel,          \* GameWheelSpinner: width, animation, timers, the draw
  spinLog,        \* the draws of the spin running or run last
  proxy,          \* bggGameDetails: per request, where its handler is
  pureCall,       \* the last call of filterGames or getUniqueCategories
  households,     \* collection households, in document id order
  users,          \* collection users: uid -> profile document or NoDoc
  auth,           \* per user: AuthProvider and HouseholdPage state
  lastJoin        \* the last joinHouseholdByCode call that returned

prefVars == <<prefs, calls, currentUser, preferences, loading, prefError,
              fetchPending, hookLog, returned>>

searchVars == <<latestSearchId, searchResults, searchError, searching,
                selectedGame, loadingDetails, searchCalls, detailCalls,
                lastResponse, clearedAt>>

ownVars == <<games, ownership, adds, dialog, view, docCount>>

nightVars == <<night, wheel, spinLog>>

proxyVars == <<proxy>>

pureVars == <<pureCall>>

accountVars == <<households, users, auth, lastJoin>>

vars == <<prefVars, searchVars, ownVars, nightVars, proxyVars, pureVars,
          accountVars>>

\* What the actions of one part of the program leave alone.
notPrefVars ==
  <<searchVars, ownVars, nightVars, proxyVars, pureVars, accountVars>>
notSearchVars ==
  <<prefVars, ownVars, nightVars, proxyVars, pureVars, accountVars>>
notOwnVars ==
  <<prefVars, searchVars, nightVars, proxyVars, pureVars, accountVars>>
notNightVars ==
  <<prefVars, searchVars, ownVars, proxyVars, pureVars, accountVars>>
notProxyVars ==
  <<prefVars, searchVars, ownVars, nightVars, pureVars, accountVars>>
notPureVars ==
  <<prefVars, searchVars, ownVars, nightVars, proxyVars, accountVars>>
notAccountVars ==
  <<prefVars, searchVars, ownVars, nightVars, proxyVars, pureVars>>

----------------------------------------------------------------------------
(* Bounds *)

MaxCalls == 2      \* preference service calls in flight at once
MaxLog == 4        \* hook actions remembered in hookLog
MaxSearches == 3   \* non-blank searches issued by one useBGGSearch
MaxGames == 2      \* documents created in the games collection
MaxOwnerships == 3 \* documents created in the ownership collection
MaxRaceOwnerships == 2 \* the same, while add-game operations overlap
MaxNightGames == 2 \* entries of the list useGames hands to GameNightPage
MaxDraws == 3      \* runs of the spin effect during one spin
MaxFilterGames == 2 \* games of a list handed to filterGames
MaxHouseholds == 3 \* documents created in the households collection
MaxRequested == 61 \* identifiers of a list handed to getGamesByIds

----------------------------------------------------------------------------
(* Preferences: src/src/services/userPreferences.ts *)

UserIds == {"u1", "u2"}
GameIds == {"g1", "g2"}

Null == "null"
\* A document slot of a collection with no document in it.
NoDoc == [exists |-> FALSE]
NoUser == "signedOut"

Reactions == {"like", "dislike", Null}

\* A stored preference: the fields the operations read and write.
PrefDoc(reaction, isFavorite) ==
  [exists |-> TRUE, reaction |-> reaction, isFavorite |-> isFavorite]

\* getPreferenceId: the document id of a (user, game) pair.
getPreferenceId(userId, gameId) == <<userId, gameId>>

PrefIds == {getPreferenceId(u, g) : u \in UserIds, g \in GameIds}

\* snapshot.exists()
Exists(snapshot) == snapshot.exists

\* Mutant of SetReactionFavorite: disliking keeps the favorite flag.
SetReactionFavoriteKept(existing, reaction) ==
  IF Exists(existing) THEN existing.isFavorite ELSE FALSE

\* setReaction, lines 63-72: the favorite flag the call will store.
SetReactionFavorite(existing, reaction) ==
  IF Exists(existing)
    THEN IF reaction = "dislike" THEN FALSE ELSE existing.isFavorite
    ELSE FALSE

\* Mutant of ToggleReaction: the stored reaction is not carried over.
ToggleReactionDropped(existing) == Null

\* Mutant of ToggleFavoriteFlag: the flag is read and not flipped.
ToggleFavoriteFlagStuck(existing) ==
  IF Exists(existing) THEN existing.isFavorite ELSE FALSE

\* toggleFavorite, lines 111-121: the reaction kept and the flipped flag.
ToggleReaction(existing) ==
  IF Exists(existing) THEN existing.reaction ELSE Null

ToggleFavoriteFlag(existing) ==
  ~ (IF Exists(existing) THEN existing.isFavorite ELSE FALSE)

\* "If reaction is null and not a favorite, delete the document"
\* (setReaction line 83, toggleFavorite line 124).
IsEmptyPref(reaction, isFavorite) == reaction = Null /\ ~isFavorite

\* Mutant of WriteDoc: the call always ends in setDoc.
WriteDocAlwaysSet(stored, reaction, isFavorite, existed) ==
  PrefDoc(reaction, isFavorite)

\* What the write step of a call leaves in the document: deleteDoc when the
\* computed state is empty and the snapshot existed, nothing when it is empty
\* and the snapshot did not exist, setDoc (a full overwrite) otherwise.
WriteDoc(stored, reaction, isFavorite, existed) ==
  IF IsEmptyPref(reaction, isFavorite)
    THEN IF existed THEN NoDoc ELSE stored
    ELSE PrefDoc(reaction, isFavorite)

\* The UserGamePreference a call returns.
ReturnedPref(reaction, isFavorite) ==
  IF IsEmptyPref(reaction, isFavorite)
    THEN [reaction |-> Null, isFavorite |-> FALSE]
    ELSE [reaction |-> reaction, isFavorite |-> isFavorite]

\* The (user, game) pairs the modelled clients call the service with: two
\* users reacting to one game.
CalledIds == {<<"u1", "g1">>, <<"u2", "g1">>}

\* A call in flight: what it computed from its getDoc snapshot and will write.
\* (arg: the reaction setReaction was called with; existing: the snapshot;
\* reaction, isFavorite: the locals of that name.)
PendingCall(op, userId, gameId, arg, existing, reaction, isFavorite) ==
  [op |-> op, userId |-> userId, gameId |-> gameId, arg |-> arg,
   existing |-> existing, reaction |-> reaction, isFavorite |-> isFavorite]

NoCall == [op |-> "none"]

\* userPreferencesService.setReaction up to the end of its await getDoc.
\* (Calls that hold the same pending write are one element of calls: their
\* writes are the same full overwrite or delete.)
SetReactionRead(userId, gameId, reaction) ==
  /\ Cardinality(calls) < MaxCalls
  /\ LET existing == prefs[getPreferenceId(userId, gameId)]
     IN calls' = calls \cup
          {PendingCall("setReaction", userId, gameId, reaction, existing,
                       reaction, SetReactionFavorite(existing, reaction))}
  /\ UNCHANGED <<prefs, currentUser, preferences, loading, prefError,
                 fetchPending, hookLog, returned, notPrefVars>>

\* userPreferencesService.toggleFavorite up to the end of its await getDoc.
ToggleFavoriteRead(userId, gameId) ==
  /\ Cardinality(calls) < MaxCalls
  /\ LET existing == prefs[getPreferenceId(userId, gameId)]
     IN calls' = calls \cup
          {PendingCall("toggleFavorite", userId, gameId, Null, existing,
                       ToggleReaction(existing), ToggleFavoriteFlag(existing))}
  /\ UNCHANGED <<prefs, currentUser, preferences, loading, prefError,
                 fetchPending, hookLog, returned, notPrefVars>>

\* deleteDoc / setDoc resolves and the call returns.
CallWrite(c) ==
  /\ c \in calls
  /\ LET id == getPreferenceId(c.userId, c.gameId)
     IN prefs' = [prefs EXCEPT ![id] =
          WriteDoc(prefs[id], c.reaction, c.isFavorite, Exists(c.existing))]
  /\ calls' = calls \ {c}
  /\ returned' = c
  /\ UNCHANGED <<currentUser, preferences, loading, prefError,
                 fetchPending, hookLog, notPrefVars>>

----------------------------------------------------------------------------
(* useUserPreferences: src/unnamed/part_008 lines 1-186.  Its actions are  *)
(* run one at a time, each to completion, the effect that fetches the      *)
(* preferences included.                                                    *)

\* The user of the modelled session.
SessionUsers == {"u1"}

StoreError == "store error"

\* The whole service call, as one awaited call of the hook sees it when no
\* other call runs between its read and its write.
SetReactionStored(existing, reaction) ==
  WriteDoc(existing, reaction, SetReactionFavorite(existing, reaction),
           Exists(existing))

SetReactionReturned(existing, reaction) ==
  ReturnedPref(reaction, SetReactionFavorite(existing, reaction))

ToggleFavoriteStored(existing) ==
  WriteDoc(existing, ToggleReaction(existing), ToggleFavoriteFlag(existing),
           Exists(existing))

ToggleFavoriteReturned(existing) ==
  ReturnedPref(ToggleReaction(existing), ToggleFavoriteFlag(existing))

\* Mutant of CurrentReaction: the in-memory reaction is never seen.
CurrentReactionUnseen(prev, gameId) == Null

\* prev.get(gameId)?.reaction || null
CurrentReaction(prev, gameId) ==
  IF Exists(prev[gameId]) THEN prev[gameId].reaction ELSE Null

\* Mutant of ApplyUpdatedPref: the entry is set whatever the preference.
ApplyUpdatedPrefAlwaysSet(prev, gameId, updatedPref) ==
  [prev EXCEPT ![gameId] =
     PrefDoc(updatedPref.reaction, updatedPref.isFavorite)]

\* The setPreferences update that follows every service call.
ApplyUpdatedPref(prev, gameId, updatedPref) ==
  IF updatedPref.reaction = Null /\ ~updatedPref.isFavorite
    THEN [prev EXCEPT ![gameId] = NoDoc]
    ELSE [prev EXCEPT ![gameId] =
            PrefDoc(updatedPref.reaction, updatedPref.isFavorite)]

\* hookLog: the hook actions that succeeded in a row on one game, the last
\* MaxLog of them, each with the stored document and the in-memory entry it
\* started from and the stored document it left.
LogEntry(op, gameId, before, mem, after) ==
  [op |-> op, gameId |-> gameId, before |-> before, mem |-> mem,
   after |-> after]

Logged(log, entry) ==
  LET kept == IF log # <<>> /\ log[1].gameId = entry.gameId
                     /\ log[1].op # "failed"
                THEN log ELSE <<>>
      all == Append(kept, entry)
  IN IF Len(all) > MaxLog THEN Tail(all) ELSE all

\* Mutant of FailedPreferences: the entry of the game is dropped when the
\* call fails.
FailedPreferencesDropped(prev, gameId) == [prev EXCEPT ![gameId] = NoDoc]

\* The map after a store call of the hook has failed: the setPreferences
\* after the await is not reached (lines 69-77), the catch sets the error
\* only (lines 78-80).
FailedPreferences(prev, gameId) == prev

\* The log entry of a hook action whose store call failed; the catch does
\* not throw again, the promise of the action resolves.
FailedEntry(op, gameId, before, mem) ==
  [op |-> "failed", action |-> op, gameId |-> gameId, before |-> before,
   mem |-> mem, after |-> before, rejected |-> FALSE]

HookIdle == ~fetchPending /\ calls = {}

\* The try / catch shared by likeGame, dislikeGame and clearReaction once the
\* reaction to set is known.
HookSetReaction(op, gameId, newReaction, outcome) ==
  LET id == getPreferenceId(currentUser, gameId)
      existing == prefs[id]
  IN IF outcome = "ok"
       THEN /\ prefs' = [prefs EXCEPT ![id] =
                 SetReactionStored(existing, newReaction)]
            /\ preferences' = ApplyUpdatedPref(preferences, gameId,
                 SetReactionReturned(existing, newReaction))
            /\ hookLog' = Logged(hookLog,
                 LogEntry(op, gameId, existing, preferences[gameId],
                          SetReactionStored(existing, newReaction)))
            /\ UNCHANGED prefError
       ELSE /\ prefError' = StoreError
            /\ preferences' = FailedPreferences(preferences, gameId)
            /\ hookLog' = <<FailedEntry(op, gameId, existing,
                                        preferences[gameId])>>
            /\ UNCHANGED prefs

\* likeGame, lines 51-81.
LikeGame(gameId, outcome) ==
  /\ HookIdle
  /\ IF currentUser = NoUser
       THEN UNCHANGED <<prefs, preferences, prefError, hookLog>>
       ELSE HookSetReaction("likeGame", gameId,
              IF CurrentReaction(preferences, gameId) = "like"
                THEN Null ELSE "like",
              outcome)
  /\ UNCHANGED <<calls, currentUser, loading, fetchPending, returned,
                 notPrefVars>>

\* dislikeGame, lines 84-114.
DislikeGame(gameId, outcome) ==
  /\ HookIdle
  /\ IF currentUser = NoUser
       THEN UNCHANGED <<prefs, preferences, prefError, hookLog>>
       ELSE HookSetReaction("dislikeGame", gameId,
              IF CurrentReaction(preferences, gameId) = "dislike"
                THEN Null ELSE "dislike",
              outcome)
  /\ UNCHANGED <<calls, currentUser, loading, fetchPending, returned,
                 notPrefVars>>

\* clearReaction, lines 117-139.
ClearReaction(gameId, outcome) ==
  /\ HookIdle
  /\ IF currentUser = NoUser
       THEN UNCHANGED <<prefs, preferences, prefError, hookLog>>
       ELSE HookSetReaction("clearReaction", gameId, Null, outcome)
  /\ UNCHANGED <<calls, currentUser, loading, fetchPending, returned,
                 notPrefVars>>

\* toggleFavorite of the hook, lines 142-163.
HookToggleFavorite(gameId, outcome) ==
  /\ HookIdle
  /\ IF currentUser = NoUser
       THEN UNCHANGED <<prefs, preferences, prefError, hookLog>>
       ELSE LET id == getPreferenceId(currentUser, gameId)
                existing == prefs[id]
            IN IF outcome = "ok"
                 THEN /\ prefs' = [prefs EXCEPT ![id] =
                           ToggleFavoriteStored(existing)]
                      /\ preferences' = ApplyUpdatedPref(preferences, gameId,
                           ToggleFavoriteReturned(existing))
                      /\ hookLog' = Logged(hookLog,
                           LogEntry("toggleFavorite", gameId, existing,
                                    preferences[gameId],
                                    ToggleFavoriteStored(existing)))
                      /\ UNCHANGED prefError
                 ELSE /\ prefError' = StoreError
                      /\ preferences' =
                           FailedPreferences(preferences, gameId)
                      /\ hookLog' = <<FailedEntry("toggleFavorite", gameId,
                                                  existing,
                                                  preferences[gameId])>>
                      /\ UNCHANGED prefs
  /\ UNCHANGED <<calls, currentUser, loading, fetchPending, returned,
                 notPrefVars>>

\* fetchPreferences, lines 25-44, run by the effect of lines 46-48.
FetchPreferences(outcome) ==
  /\ fetchPending
  /\ fetchPending' = FALSE
  /\ loading' = FALSE
  /\ IF currentUser = NoUser
       THEN /\ preferences' = [g \in GameIds |-> NoDoc]
            /\ UNCHANGED prefError
       ELSE IF outcome = "ok"
         THEN /\ preferences' =
                   [g \in GameIds |-> prefs[getPreferenceId(currentUser, g)]]
              /\ prefError' = Null
         ELSE /\ prefError' = StoreError
              /\ UNCHANGED preferences
  /\ UNCHANGED <<prefs, calls, currentUser, hookLog, returned, notPrefVars>>

\* The auth context changes currentUser: fetchPreferences is a new callback
\* and its effect runs again.
SignIn(userId) ==
  /\ HookIdle
  /\ currentUser = NoUser
  /\ currentUser' = userId
  /\ fetchPending' = TRUE
  /\ hookLog' = <<>>
  /\ UNCHANGED <<prefs, calls, preferences, loading, prefError, returned,
                 notPrefVars>>

SignOut ==
  /\ HookIdle
  /\ currentUser # NoUser
  /\ currentUser' = NoUser
  /\ fetchPending' = TRUE
  /\ hookLog' = <<>>
  /\ UNCHANGED <<prefs, calls, preferences, loading, prefError, returned,
                 notPrefVars>>

----------------------------------------------------------------------------
(* useBGGSearch: src/src/services/ownership.ts lines 227-322 *)

\* The queries typed: two that are blank once trimmed and two that are not.
Queries == {"", " ", "catan", "azul"}

\* !query.trim()
IsBlank(query) == query \in {"", " "}

BggIds == {"b1", "b2"}

\* What bggService.searchGames can answer to a query: its hits, no hit, or
\* a failure.
Answers == {"hits", "none", "fail"}

SearchHits(query, answer) == IF answer = "hits" THEN <<query>> ELSE <<>>

SearchFailed == "Search failed"
DetailsFailed == "Failed to load game details"

NoResponse == [searchId |-> 0]

\* The results have not been cleared yet.
NotCleared == -1

\* Mutant of IsLatestSearch: every response counts as the latest.
IsLatestSearchAlways(searchId, latest) == TRUE

\* searchId === latestSearchIdRef.current
IsLatestSearch(searchId, latest) == searchId = latest

\* search, lines 253-267: up to the await of bggService.searchGames.
Search(query) ==
  /\ IF IsBlank(query)
       THEN /\ searchResults' = <<>>
            /\ searchError' = Null
            /\ clearedAt' = latestSearchId
            /\ UNCHANGED <<latestSearchId, searching, searchCalls>>
       ELSE /\ latestSearchId < MaxSearches
            /\ latestSearchId' = latestSearchId + 1
            /\ searching' = TRUE
            /\ searchError' = Null
            /\ searchCalls' = searchCalls \cup
                 {[searchId |-> latestSearchId + 1, query |-> query]}
            /\ UNCHANGED <<searchResults, clearedAt>>
  /\ UNCHANGED <<selectedGame, loadingDetails, detailCalls, lastResponse>>
  /\ UNCHANGED notSearchVars

\* search, lines 267-284: bggService.searchGames resolves or rejects.
SearchResponse(call, answer) ==
  /\ call \in searchCalls
  /\ searchCalls' = searchCalls \ {call}
  /\ lastResponse' = [searchId |-> call.searchId, query |-> call.query,
                      answer |-> answer]
  /\ IF IsLatestSearch(call.searchId, latestSearchId)
       THEN /\ searchResults' = SearchHits(call.query, answer)
            /\ searchError' = IF answer = "fail" THEN SearchFailed
                              ELSE searchError
            /\ searching' = FALSE
       ELSE UNCHANGED <<searchResults, searchError, searching>>
  /\ UNCHANGED <<latestSearchId, selectedGame, loadingDetails, detailCalls,
                 clearedAt>>
  /\ UNCHANGED notSearchVars

\* selectGame, lines 287-292: up to the await of bggService.getGameDetails.
SelectGame(bggId) ==
  /\ loadingDetails' = TRUE
  /\ searchError' = Null
  /\ detailCalls' = detailCalls \cup {bggId}
  /\ UNCHANGED <<latestSearchId, searchResults, searching, selectedGame,
                 searchCalls, lastResponse, clearedAt>>
  /\ UNCHANGED notSearchVars

\* selectGame, lines 292-299: bggService.getGameDetails resolves or rejects.
DetailsResponse(bggId, answer) ==
  /\ bggId \in detailCalls
  /\ detailCalls' = detailCalls \ {bggId}
  /\ IF answer = "fail"
       THEN /\ searchError' = DetailsFailed
            /\ UNCHANGED <<selectedGame, searchResults>>
       ELSE /\ selectedGame' = bggId
            /\ searchResults' = <<>>
            /\ UNCHANGED searchError
  /\ loadingDetails' = FALSE
  /\ UNCHANGED <<latestSearchId, searching, searchCalls, lastResponse,
                 clearedAt>>
  /\ UNCHANGED notSearchVars

\* clearSelection, lines 302-304.
ClearSelection ==
  /\ selectedGame' = Null
  /\ UNCHANGED <<latestSearchId, searchResults, searchError, searching,
                 loadingDetails, searchCalls, detailCalls, lastResponse,
                 clearedAt>>
  /\ UNCHANGED notSearchVars

\* clearResults, lines 306-309.
ClearResults ==
  /\ searchResults' = <<>>
  /\ searchError' = Null
  /\ clearedAt' = latestSearchId
  /\ UNCHANGED <<latestSearchId, searching, selectedGame, loadingDetails,
                 searchCalls, detailCalls, lastResponse>>
  /\ UNCHANGED notSearchVars

----------------------------------------------------------------------------
(* gamesService and ownershipService: src/src/services/games.ts and        *)
(* src/src/services/ownership.ts lines 1-225.  A collection is the sequence *)
(* of its documents in document id order, the order getDocs returns; addDoc *)
(* draws a random id, so a new document may land at any place of it.        *)

Households == {"h1", "h2"}
Clients == {"c1", "c2"}

\* No external catalogue id: the field is absent or the empty string.
NoBgg == ""

\* The name the catalogue gives the game of a BoardGameGeek id.
CatalogName(bggId) == IF bggId = "b1" THEN "Catan" ELSE "Azul"

\* The payloads games are added with: a catalogue game, and a game typed in
\* by hand under the same name or another.
GamePayloads ==
  { [bggId |-> "b1", name |-> "Catan"],
    [bggId |-> NoBgg, name |-> "Azul"] }

\* String.prototype.localeCompare on the names used: their collation rank.
LocaleRank(name) == IF name = "Azul" THEN 1 ELSE 2

NoGame == [id |-> 0]

Range(seq) == {seq[i] : i \in 1..Len(seq)}

\* The sequence with doc put at place k.
InsertAt(seq, k, doc) ==
  SubSeq(seq, 1, k - 1) \o <<doc>> \o SubSeq(seq, k, Len(seq))

\* Mutant of findGameByBggId: the lookup never finds a game.
FindGameByBggIdBlind(gs, bggId) == NoGame

\* gamesService.findGameByBggId, lines 78-93.
FindGameByBggId(gs, bggId) ==
  LET HasId(g) == g.bggId = bggId
      docs == SelectSeq(gs, HasId)
  IN IF docs = <<>> THEN NoGame ELSE docs[1]

\* The document addDoc creates from a payload, under the id it draws.
NewGame(id, gameData) ==
  [id |-> id, bggId |-> gameData.bggId, name |-> gameData.name]

\* ownershipService.householdOwnsGame, lines 120-139: the rows found.
OwnershipsOf(os, gameId, householdId) ==
  LET Matches(o) == o.gameId = gameId /\ o.householdId = householdId
  IN SelectSeq(os, Matches)

\* existingOwnership is not null.
HouseholdOwnsGame(os, gameId, householdId) ==
  OwnershipsOf(os, gameId, householdId) # <<>>

\* The document ownershipService.addOwnership creates, lines 30-45.
NewOwnership(id, gameId, householdId) ==
  [id |-> id, gameId |-> gameId, householdId |-> householdId]

\* Mutant of AddOwnership: a row of a pair that has one is not written.
AddOwnershipOnce(os, k, id, gameId, householdId) ==
  IF OwnershipsOf(os, gameId, householdId) # <<>> THEN os
  ELSE InsertAt(os, k, NewOwnership(id, gameId, householdId))

\* ownershipService.addOwnership, lines 21-48: addDoc draws a new id, which
\* falls at place k of the collection.
AddOwnership(os, k, id, gameId, householdId) ==
  InsertAt(os, k, NewOwnership(id, gameId, householdId))

\* Mutant of GetGamesByIds: only the first game found is returned.
GetGamesByIdsFirstOnly(gs, gameIds) ==
  LET Wanted(g) == g.id \in gameIds
      docs == SelectSeq(gs, Wanted)
  IN IF docs = <<>> THEN <<>> ELSE <<docs[1]>>

\* gamesService.getGamesByIds, lines 50-75: the games with one of the ids.
GetGamesByIds(gs, gameIds) ==
  LET Wanted(g) == g.id \in gameIds
  IN SelectSeq(gs, Wanted)

\* Array.prototype.sort with (a, b) => a.name.localeCompare(b.name): stable.
RECURSIVE SortByName(_)
SortByName(seq) ==
  IF seq = <<>> THEN <<>>
  ELSE LET rest == SortByName(SubSeq(seq, 1, Len(seq) - 1))
           last == seq[Len(seq)]
           NotAfter(x) == LocaleRank(x.name) <= LocaleRank(last.name)
           After(x) == ~NotAfter(x)
       IN SelectSeq(rest, NotAfter) \o <<last>> \o SelectSeq(rest, After)

\* ownerCountMap.get(gameId): the rows of the game among those counted.
OwnerCount(counted, gameId) ==
  Cardinality({i \in 1..Len(counted) : counted[i].gameId = gameId})

\* The join of lines 163-179: one OwnedGame per ownership with a game found,
\* sorted by name.
JoinOwnedGames(ownerships, found, counted) ==
  LET Resolved(o) == \E g \in Range(found) : g.id = o.gameId
      GameOf(o) == CHOOSE g \in Range(found) : g.id = o.gameId
      kept == SelectSeq(ownerships, Resolved)
  IN SortByName(
       [i \in 1..Len(kept) |->
          [id |-> kept[i].gameId,
           name |-> GameOf(kept[i]).name,
           bggId |-> GameOf(kept[i]).bggId,
           ownership |-> kept[i],
           ownerCount |-> IF OwnerCount(counted, kept[i].gameId) = 0 THEN 1
                          ELSE OwnerCount(counted, kept[i].gameId)]])

\* ownershipService.getOwnedGames, lines 143-180.
GetOwnedGames(gs, os) ==
  IF os = <<>> THEN <<>>
  ELSE JoinOwnedGames(os,
         GetGamesByIds(gs, {os[i].gameId : i \in 1..Len(os)}), os)

\* ownershipService.getOwnedGamesByHousehold, lines 183-224.
GetOwnedGamesByHousehold(gs, os, householdId) ==
  LET OfHousehold(o) == o.householdId = householdId
      ownerships == SelectSeq(os, OfHousehold)
      gameIds == {ownerships[i].gameId : i \in 1..Len(ownerships)}
      Included(o) == o.gameId \in gameIds
  IN IF ownerships = <<>> THEN <<>>
     ELSE JoinOwnedGames(ownerships, GetGamesByIds(gs, gameIds),
                         SelectSeq(os, Included))

NoView == [scope |-> "none"]

\* An add-game operation of a client: idle (with the error its last run
\* set), or between two awaited store calls.
Idle(error) == [pc |-> "idle", error |-> error]

AlreadyOwns == "Your household already owns this game"
AlreadyOwnsStale == "This household already owns this game"

DialogClosed == [selected |-> NoBgg]

AllIdle == \A c \in Clients : adds[c].pc = "idle"

\* gamesService.getOrCreateGame, lines 96-103: findGameByBggId has resolved.
\* The operation goes on to the ownership check with the game found, or to
\* the addDoc that creates the game.
AfterFind(kind, gameData, householdId) ==
  LET existing == IF gameData.bggId # NoBgg
                    THEN FindGameByBggId(games, gameData.bggId)
                    ELSE NoGame
  IN IF existing # NoGame
       THEN [pc |-> "check", kind |-> kind, gameData |-> gameData,
             householdId |-> householdId, game |-> existing,
             created |-> FALSE]
       ELSE [pc |-> "create", kind |-> kind, gameData |-> gameData,
             householdId |-> householdId]

\* useGames.addGameWithOwnership, part_008 lines 241-249, to the end of the
\* lookup of getOrCreateGame.
AddGameWithOwnership(c, gameData, householdId) ==
  /\ adds[c].pc = "idle"
  /\ adds' = [adds EXCEPT ![c] = AfterFind("hook", gameData, householdId)]
  /\ view' = NoView
  /\ UNCHANGED <<games, ownership, dialog, docCount>>
  /\ UNCHANGED notOwnVars

\* gamesService.getOrCreateGame, lines 105-119: addDoc creates the game.
CreateGame(c, k) ==
  /\ adds[c].pc = "create"
  /\ docCount.games < MaxGames
  /\ LET a == adds[c]
         game == NewGame(docCount.games + 1, a.gameData)
     IN /\ games' = InsertAt(games, k, game)
        /\ docCount' = [docCount EXCEPT !.games = @ + 1]
        /\ adds' = [adds EXCEPT ![c] =
             [pc |-> "check", kind |-> a.kind, gameData |-> a.gameData,
              householdId |-> a.householdId, game |-> game,
              created |-> TRUE]]
  /\ view' = NoView
  /\ UNCHANGED <<ownership, dialog>>
  /\ UNCHANGED notOwnVars

\* householdOwnsGame resolves (part_008 lines 252-255, part_014 lines
\* 266-271): the operation ends with the error, or goes on to addOwnership.
CheckOwnership(c) ==
  /\ adds[c].pc = "check"
  /\ LET a == adds[c]
     IN adds' = [adds EXCEPT ![c] =
          IF HouseholdOwnsGame(ownership, a.game.id, a.householdId)
            THEN Idle(AlreadyOwns)
            ELSE [pc |-> "insert", kind |-> a.kind, gameData |-> a.gameData,
                  householdId |-> a.householdId, game |-> a.game]]
  /\ view' = NoView
  /\ UNCHANGED <<games, ownership, dialog, docCount>>
  /\ UNCHANGED notOwnVars

\* addOwnership resolves (part_008 lines 258-264, part_014 lines 274-283):
\* the hook goes on to fetchGames, the dialog closes.
InsertOwnership(c, k) ==
  /\ adds[c].pc = "insert"
  /\ LET a == adds[c]
     IN /\ ownership' = AddOwnership(ownership, k, docCount.ownership + 1,
                                     a.game.id, a.householdId)
        /\ docCount' = [docCount EXCEPT !.ownership = @ + 1]
        /\ IF a.kind = "hook"
             THEN /\ adds' = [adds EXCEPT ![c] = [pc |-> "refresh"]]
                  /\ UNCHANGED dialog
             ELSE /\ adds' = [adds EXCEPT ![c] = Idle(Null)]
                  /\ dialog' = DialogClosed
  /\ view' = NoView
  /\ UNCHANGED games
  /\ UNCHANGED notOwnVars

\* fetchGames, part_008 lines 220-232, at the end of addGameWithOwnership.
RefreshGames(c) ==
  /\ adds[c].pc = "refresh"
  /\ adds' = [adds EXCEPT ![c] = Idle(Null)]
  /\ view' = [scope |-> "all", list |-> GetOwnedGames(games, ownership)]
  /\ UNCHANGED <<games, ownership, dialog, docCount>>
  /\ UNCHANGED notOwnVars

\* AddGameDialog.handleSelectResult, part_014 lines 190-215.
SelectResult(bggId) ==
  /\ adds["c1"].pc = "idle"
  /\ LET existing == FindGameByBggId(games, bggId)
         OfGame(o) == o.gameId = existing.id
         ownerships == SelectSeq(ownership, OfGame)
     IN dialog' =
          IF existing # NoGame
            THEN [selected |-> bggId, isExistingGame |-> TRUE,
                  existingGame |-> existing,
                  existingOwnerships |-> ownerships]
            ELSE [selected |-> bggId, isExistingGame |-> FALSE,
                  existingGame |-> NoGame, existingOwnerships |-> <<>>]
  /\ view' = NoView
  /\ UNCHANGED <<games, ownership, adds, docCount>>
  /\ UNCHANGED notOwnVars

\* existingOwnerships.some(o => o.householdId === selectedHouseholdId)
AlreadyOwnsInDialog(existingOwnerships, householdId) ==
  \E i \in 1..Len(existingOwnerships) :
    existingOwnerships[i].householdId = householdId

\* AddGameDialog.handleSubmit, part_014 lines 227-272, to the end of its
\* first awaited call.
HandleSubmit(householdId) ==
  /\ adds["c1"].pc = "idle"
  /\ dialog # DialogClosed
  /\ adds' = [adds EXCEPT !["c1"] =
       IF dialog.isExistingGame /\ dialog.existingGame # NoGame
         THEN IF AlreadyOwnsInDialog(dialog.existingOwnerships, householdId)
                THEN Idle(AlreadyOwnsStale)
                ELSE [pc |-> "insert", kind |-> "dialog",
                      gameData |-> [bggId |-> dialog.selected,
                                    name |-> dialog.existingGame.name],
                      householdId |-> householdId,
                      game |-> dialog.existingGame]
         ELSE AfterFind("dialog",
                [bggId |-> dialog.selected,
                 name |-> CatalogName(dialog.selected)],
                householdId)]
  /\ view' = NoView
  /\ UNCHANGED <<games, ownership, dialog, docCount>>
  /\ UNCHANGED notOwnVars

\* gamesService.deleteGame, lines 139-142: deleteDoc of the game document
\* and of nothing else.
DeleteGame(gameId) ==
  /\ LET Others(g) == g.id # gameId
     IN games' = SelectSeq(games, Others)
  /\ view' = NoView
  /\ UNCHANGED <<ownership, adds, dialog, docCount>>
  /\ UNCHANGED notOwnVars

\* gamesService.updateGame, lines 133-136, with a new name: updateDoc
\* changes the fields given of a document that exists.
UpdateGame(gameId, name) ==
  /\ \E i \in 1..Len(games) : games[i].id = gameId
  /\ games' = [i \in 1..Len(games) |->
                 IF games[i].id = gameId
                   THEN [games[i] EXCEPT !.name = name]
                   ELSE games[i]]
  /\ view' = NoView
  /\ UNCHANGED <<ownership, adds, dialog, docCount>>
  /\ UNCHANGED notOwnVars

\* ownershipService.deleteOwnership, lines 114-117.
DeleteOwnership(ownershipId) ==
  /\ LET Others(o) == o.id # ownershipId
     IN ownership' = SelectSeq(ownership, Others)
  /\ view' = NoView
  /\ UNCHANGED <<games, adds, dialog, docCount>>
  /\ UNCHANGED notOwnVars

\* A caller awaits ownershipService.getOwnedGames.
OwnedGamesQuery ==
  /\ view' = [scope |-> "all", list |-> GetOwnedGames(games, ownership)]
  /\ UNCHANGED <<games, ownership, adds, dialog, docCount>>
  /\ UNCHANGED notOwnVars

\* A caller awaits ownershipService.getOwnedGamesByHousehold.
HouseholdGamesQuery(householdId) ==
  /\ view' = [scope |-> householdId,
              list |-> GetOwnedGamesByHousehold(games, ownership,
                                                householdId)]
  /\ UNCHANGED <<games, ownership, adds, dialog, docCount>>
  /\ UNCHANGED notOwnVars

----------------------------------------------------------------------------
(* GameNightPage, src/unnamed/part_012 lines 16-262, and GameWheelSpinner,  *)
(* src/unnamed/part_004.                                                    *)

\* minPlayers and maxPlayers of the games of the library.
MinPlayers(id) == IF id = "g1" THEN 2 ELSE 3
MaxPlayers(id) == IF id = "g1" THEN 4 ELSE 6

\* An entry of useGames().games: a game with one of its ownership rows.
NightGame(id, householdId) ==
  [id |-> id, minPlayers |-> MinPlayers(id), maxPlayers |-> MaxPlayers(id),
   ownership |-> [householdId |-> householdId]]

NightEntries == {NightGame(id, h) : id \in GameIds, h \in Households}

\* The sequences over a set up to a length.
RECURSIVE SeqsUpTo(_, _)
SeqsUpTo(S, n) ==
  IF n = 0 THEN {<<>>}
  ELSE LET shorter == SeqsUpTo(S, n - 1)
       IN shorter \cup {Append(q, x) : q \in {r \in shorter : Len(r) = n - 1},
                                         x \in S}

NightLists == SeqsUpTo(NightEntries, MaxNightGames)

\* playerCount undefined, hostHouseholdId undefined.
NoCount == 0
NoHousehold == ""

NightFilters(playerCount, host, additional, preferencesFilter) ==
  [playerCount |-> playerCount, hostHouseholdId |-> host,
   additionalHouseholdIds |-> additional,
   preferencesFilter |-> preferencesFilter]

\* useState initial value of filters, part_012 lines 21-26.
InitialNightFilters == NightFilters(NoCount, NoHousehold, <<>>, "all")

AllNightFilters ==
  {NightFilters(n, h, a, p) :
     n \in {NoCount, 2, 5}, h \in {NoHousehold, "h1"},
     a \in {<<>>, <<"h2">>}, p \in {"all", "liked", "favorites"}}

\* The preference maps getPreference reads: none, g1 liked, g1 a favorite.
NightPrefs ==
  { [g \in GameIds |-> NoDoc],
    [g \in GameIds |-> IF g = "g1" THEN PrefDoc("like", FALSE) ELSE NoDoc],
    [g \in GameIds |-> IF g = "g1" THEN PrefDoc(Null, TRUE) ELSE NoDoc] }

\* Mutant of UniqueGames: no entry is dropped.
UniqueGamesAll(list) == list

\* uniqueGamesMap, part_012 lines 58-66: the first entry of each game id, in
\* the order of the list.
UniqueGames(list) ==
  LET firsts == {i \in 1..Len(list) :
                   \A j \in 1..(i - 1) : list[j].id # list[i].id}
      IsFirst(k) == k \in firsts
      places == SelectSeq([i \in 1..Len(list) |-> i], IsFirst)
  IN [k \in 1..Len(places) |-> list[places[k]]]

\* GameNightPage.filteredGames, part_012 lines 56-103.
FilteredGames(list, filters, prefMap) ==
  LET InCount(g) ==
        filters.playerCount = NoCount
          \/ (filters.playerCount >= g.minPlayers
                /\ filters.playerCount <= g.maxPlayers)
      allowed == {filters.hostHouseholdId}
                   \cup Range(filters.additionalHouseholdIds)
      InHouseholds(g) ==
        filters.hostHouseholdId = NoHousehold
          \/ g.ownership.householdId \in allowed
      InPrefs(g) ==
        CASE filters.preferencesFilter = "liked" ->
               prefMap[g.id].exists /\ prefMap[g.id].reaction = "like"
          [] filters.preferencesFilter = "favorites" ->
               prefMap[g.id].exists /\ prefMap[g.id].isFavorite
          [] OTHER -> TRUE
  IN SelectSeq(SelectSeq(SelectSeq(UniqueGames(list), InCount),
                         InHouseholds), InPrefs)

\* The list GameNightPage hands to the wheel.
Pool(n) == FilteredGames(n.games, n.filters, n.prefs)

\* No game: selectedGame null, no draw made.
NoWinner == [id |-> Null]

\* DEFAULT_VIEWPORT_WIDTH, and the clientWidth of a narrow window.
Widths == {800, 400}

\* The wheel after its effects have run on a render that changed one of
\* their dependencies, part_004 lines 78-132: the cleanup clears the two
\* timeouts of the run before (not the one that hands the result over);
\* while spinning over a list that is not empty the effect draws
\* winningIndex (i, from Math.random) and sets the timeouts again;
\* otherwise the track is put back to its start.
SpinEffect(w, isSpinning, pool, i) ==
  IF isSpinning /\ pool # <<>>
    THEN [w EXCEPT !.winner = pool[i], !.startTimeout = TRUE,
                   !.spinTimeout = TRUE, !.isAnimating = FALSE,
                   !.aimedAt = Null]
    ELSE [w EXCEPT !.winner = NoWinner, !.startTimeout = FALSE,
                   !.spinTimeout = FALSE,
                   !.isAnimating = IF pool # <<>> THEN FALSE ELSE @,
                   !.aimedAt = IF pool # <<>> THEN Null ELSE @]

\* The values Math.floor(Math.random() * games.length) can take, plus one.
DrawIndexes(n) ==
  IF n.isSpinning /\ Pool(n) # <<>> THEN 1..Len(Pool(n)) ELSE {1}

\* The draws of a spin after one more run of the effect.
Drawn(log, n, w) ==
  IF n.isSpinning /\ Pool(n) # <<>>
    THEN [log EXCEPT !.draws = @ + 1,
                     !.first = IF log.draws = 0 THEN w.winner ELSE @]
    ELSE log

\* GameNightPage renders with the state n and the wheel's effects run.
Render(n, w, i) ==
  /\ n.isSpinning /\ Pool(n) # <<>> => spinLog.draws < MaxDraws
  /\ night' = n
  /\ wheel' = SpinEffect(w, n.isSpinning, Pool(n), i)
  /\ spinLog' = Drawn(spinLog, n, wheel')
  /\ UNCHANGED notNightVars

\* useGames hands the page a new list of games.
NightGamesLoaded(list) ==
  LET n == [night EXCEPT !.games = list]
  IN \E i \in DrawIndexes(n) : Render(n, wheel, i)

\* GameNightFilters calls onFiltersChange, part_012 line 196.
NightSetFilters(filters) ==
  LET n == [night EXCEPT !.filters = filters]
  IN \E i \in DrawIndexes(n) : Render(n, wheel, i)

\* useUserPreferences hands the page a new getPreference.
NightPrefsLoaded(prefMap) ==
  LET n == [night EXCEPT !.prefs = prefMap]
  IN \E i \in DrawIndexes(n) : Render(n, wheel, i)

\* The window is resized: updateWidth, part_004 lines 31-40.
Resize(width) ==
  /\ width # wheel.containerWidth
  /\ \E i \in DrawIndexes(night) :
       Render(night, [wheel EXCEPT !.containerWidth = width], i)

\* GameNightPage.handleSpin, part_012 lines 114-118.
HandleSpin ==
  /\ Pool(night) # <<>>
  /\ ~night.isSpinning
  /\ LET n == [night EXCEPT !.isSpinning = TRUE]
     IN \E i \in DrawIndexes(n) :
          /\ night' = n
          /\ wheel' = SpinEffect(wheel, TRUE, Pool(n), i)
          /\ spinLog' = [draws |-> 1, first |-> wheel'.winner,
                         handed |-> NoWinner]
  /\ UNCHANGED notNightVars

\* startTimeout fires, part_004 lines 111-114: the track starts moving to
\* the card drawn.
StartTimeoutFires ==
  /\ wheel.startTimeout
  /\ wheel' = [wheel EXCEPT !.startTimeout = FALSE, !.isAnimating = TRUE,
                            !.aimedAt = wheel.winner.id]
  /\ UNCHANGED <<night, spinLog>>
  /\ UNCHANGED notNightVars

\* spinTimeout fires, part_004 lines 117-124, later than the startTimeout
\* set with it and than any result timeout set before it.
SpinTimeoutFires ==
  /\ wheel.spinTimeout
  /\ ~wheel.startTimeout
  /\ wheel.postTimeouts = {}
  /\ wheel' = [wheel EXCEPT !.spinTimeout = FALSE, !.isAnimating = FALSE,
                            !.postTimeouts = {wheel.winner}]
  /\ UNCHANGED <<night, spinLog>>
  /\ UNCHANGED notNightVars

\* The result timeout fires, part_004 lines 121-123, and calls
\* handleSpinComplete, part_012 lines 121-125; the page renders.
PostTimeoutFires(game) ==
  /\ game \in wheel.postTimeouts
  /\ LET n == [night EXCEPT !.isSpinning = FALSE, !.selectedGame = game,
                            !.showResult = TRUE]
         w == [wheel EXCEPT !.postTimeouts = @ \ {game}]
     IN /\ night' = n
        /\ wheel' = IF night.isSpinning
                      THEN SpinEffect(w, FALSE, Pool(n), 1)
                      ELSE w
  /\ spinLog' = [spinLog EXCEPT !.handed = game]
  /\ UNCHANGED notNightVars

\* GameNightPage.handleQuickPick, part_012 lines 106-112.
HandleQuickPick ==
  /\ Pool(night) # <<>>
  /\ \E i \in 1..Len(Pool(night)) :
       night' = [night EXCEPT !.selectedGame = Pool(night)[i],
                              !.showResult = TRUE]
  /\ UNCHANGED <<wheel, spinLog>>
  /\ UNCHANGED notNightVars

\* GameNightPage.handleCloseResult, part_012 lines 127-131.
HandleCloseResult ==
  /\ night.showResult
  /\ night' = [night EXCEPT !.selectedGame = NoWinner, !.showResult = FALSE]
  /\ UNCHANGED <<wheel, spinLog>>
  /\ UNCHANGED notNightVars

----------------------------------------------------------------------------
(* The game-details proxy, bggGameDetails: src/unnamed/part_012 lines       *)
(* 538-639.                                                                 *)

\* const maxRetries = 5
maxRetries == 5

\* The requests the function handles at the same time.
ProxyRequests == {"r1", "r2"}

\* What the upstream API answers to one fetch: a status and a body; status 0
\* stands for a fetch that rejects.
UpstreamAnswers ==
  { [status |-> 202, body |-> ""],
    [status |-> 200, body |-> "item"],
    [status |-> 200, body |-> "no item"],
    [status |-> 200, body |-> ""],
    [status |-> 401, body |-> ""],
    [status |-> 500, body |-> ""],
    [status |-> 0, body |-> ""] }

ProxyIdle == [pc |-> "idle"]

\* The handler has sent its reply.
Replied(answers, status, message) ==
  [pc |-> "done", answers |-> answers, status |-> status,
   message |-> message]

\* Mutant of RetriesLeft: one more round of the loop.
RetriesLeftOneMore(attempt) == attempt < maxRetries + 1

\* attempt < maxRetries, the test of the for loop.
RetriesLeft(attempt) == attempt < maxRetries

\* Lines 581-634: the handler after the loop, with the xml it got.
AfterLoop(answers, xml) ==
  IF xml = ""
    THEN Replied(answers, 504, "BGG API timed out (too many 202 responses)")
    ELSE IF xml = "no item"
           THEN Replied(answers, 404, "Game not found")
           ELSE Replied(answers, 200, "gameDetails")

\* The top of a round of the loop: the test, then the fetch.
LoopTop(answers, attempt) ==
  IF RetriesLeft(attempt)
    THEN [pc |-> "fetching", answers |-> answers, attempt |-> attempt]
    ELSE AfterLoop(answers, "")

\* A request arrives, lines 538-556.
ProxyRequest(r, method, id) ==
  /\ proxy[r].pc \in {"idle", "done"}
  /\ proxy' = [proxy EXCEPT ![r] =
       IF method = "OPTIONS" THEN Replied(<<>>, 204, "")
       ELSE IF id = ""
              THEN Replied(<<>>, 400, "Missing game ID parameter")
              ELSE LoopTop(<<>>, 0)]
  /\ UNCHANGED notProxyVars

\* The fetch of a round settles, lines 560-578, 635-638.
UpstreamAnswer(r, answer) ==
  /\ proxy[r].pc = "fetching"
  /\ LET answers == Append(proxy[r].answers, answer.status)
     IN proxy' = [proxy EXCEPT ![r] =
          IF answer.status = 0
            THEN Replied(answers, 500, "Failed to fetch game details")
          ELSE IF answer.status = 202
            THEN [pc |-> "waiting", answers |-> answers,
                  attempt |-> proxy[r].attempt]
          ELSE IF answer.status \notin 200..299
            THEN Replied(answers, answer.status,
                         IF answer.status = 401
                           THEN "BGG API authentication required"
                           ELSE "BGG API request failed")
          ELSE AfterLoop(answers, answer.body)]
  /\ UNCHANGED notProxyVars

\* The retry delay has passed, lines 562-566: continue with the next round.
RetryDelayElapsed(r) ==
  /\ proxy[r].pc = "waiting"
  /\ proxy' = [proxy EXCEPT ![r] =
       LoopTop(proxy[r].answers, proxy[r].attempt + 1)]
  /\ UNCHANGED notProxyVars

----------------------------------------------------------------------------
(* gamesService.filterGames and getUniqueCategories: src/src/services/      *)
(* games.ts lines 144-196.  A string that is searched is the sequence of    *)
(* its characters; a tag is a string.                                       *)

Catan == <<"C", "a", "t", "a", "n">>
Azul == <<"A", "z", "u", "l">>
TileGame == <<"T", "i", "l", "e", " ", "c", "a", "t", "s">>

\* String.prototype.toLowerCase on the characters used.
LowerChar(c) ==
  CASE c = "A" -> "a" [] c = "C" -> "c" [] c = "T" -> "t"
    [] c = "Z" -> "z" [] OTHER -> c

ToLowerCase(str) == [i \in 1..Len(str) |-> LowerChar(str[i])]

\* String.prototype.includes
Includes(str, sub) ==
  \E i \in 0..(Len(str) - Len(sub)) : SubSeq(str, i + 1, i + Len(sub)) = sub

\* game.categories: undefined, or a list of tags.
NoCategories == [defined |-> FALSE, list |-> <<>>]
CategoryList(list) == [defined |-> TRUE, list |-> list]

\* An OwnedGame as filterGames reads it; an absent description is the empty
\* string, an absent playTimeMinutes is 0.
FilterGame(name, description, minP, maxP, householdId, categories, minutes) ==
  [name |-> name, description |-> description, minPlayers |-> minP,
   maxPlayers |-> maxP, ownership |-> [householdId |-> householdId],
   categories |-> categories, playTimeMinutes |-> minutes]

FilterEntries ==
  { FilterGame(Catan, <<>>, 3, 4, "h1",
               CategoryList(<<"strategy", "Family">>), 90),
    FilterGame(Azul, TileGame, 2, 4, "h2",
               CategoryList(<<"abstract", "Family">>), 0),
    FilterGame(Catan, <<>>, 3, 4, "h2", NoCategories, 45),
    FilterGame(Azul, <<>>, 2, 6, "h1", CategoryList(<<"">>), 30) }

FilterLists == SeqsUpTo(FilterEntries, MaxFilterGames)

\* A filter specification: GameFilters of src/src/types/index.ts lines
\* 52-58, and the householdIds the GameFilters component sets
\* (GameFilters.tsx lines 123-132).  An absent field is "", 0 or <<>>.
FilterSpec(searchQuery, playerCount, householdId, householdIds, categories, maxPlayTime) ==
  [searchQuery |-> searchQuery, playerCount |-> playerCount,
   householdId |-> householdId, householdIds |-> householdIds,
   categories |-> categories, maxPlayTime |-> maxPlayTime]

FilterSpecs ==
  {FilterSpec(q, n, h, hs, cs, t) :
     q \in {<<>>, <<"C", "A", "T">>, <<"z", "u">>},
     n \in {0, 2, 5},
     h \in {"", "h1"},
     hs \in {<<>>, <<"h1">>, <<"h2", "h1">>},
     cs \in {<<>>, <<"Family">>, <<"strategy", "abstract">>},
     t \in {0, 60}}

\* Lines 148-153.
MatchesSearch(game, filters) ==
  filters.searchQuery # <<>> =>
    LET search == ToLowerCase(filters.searchQuery)
    IN \/ Includes(ToLowerCase(game.name), search)
       \/ Includes(ToLowerCase(game.description), search)

\* Lines 156-163.
MatchesPlayerCount(game, filters) ==
  filters.playerCount # 0 =>
    ~(filters.playerCount < game.minPlayers
        \/ filters.playerCount > game.maxPlayers)

\* Lines 166-168: only filters.householdId is read.
MatchesHousehold(game, filters) ==
  ~(filters.householdId # ""
      /\ game.ownership.householdId # filters.householdId)

\* Mutant of MatchesCategories: every tag of the filter is required.
MatchesAllCategories(game, filters) ==
  Len(filters.categories) > 0 =>
    \A i \in 1..Len(filters.categories) :
      /\ game.categories.defined
      /\ filters.categories[i] \in Range(game.categories.list)

\* Lines 171-176.
MatchesCategories(game, filters) ==
  Len(filters.categories) > 0 =>
    \E i \in 1..Len(filters.categories) :
      /\ game.categories.defined
      /\ filters.categories[i] \in Range(game.categories.list)

\* Lines 179-183.
MatchesPlayTime(game, filters) ==
  (filters.maxPlayTime # 0 /\ game.playTimeMinutes # 0) =>
    ~(game.playTimeMinutes > filters.maxPlayTime)

\* The callback of games.filter, lines 146-186.
Passes(game, filters) ==
  /\ MatchesSearch(game, filters)
  /\ MatchesPlayerCount(game, filters)
  /\ MatchesHousehold(game, filters)
  /\ MatchesCategories(game, filters)
  /\ MatchesPlayTime(game, filters)

\* The games of a list that pass, in the order of the list.
Kept(list, filters) ==
  LET Keep(game) == Passes(game, filters)
  IN SelectSeq(list, Keep)

\* Mutant of FilterGames: the first game that passes is left out.
FilterGamesDropFirst(list, filters) ==
  IF Kept(list, filters) = <<>> THEN <<>> ELSE Tail(Kept(list, filters))

\* Mutant of FilterGames: the games that pass, last first.
FilterGamesReversed(list, filters) ==
  [i \in 1..Len(Kept(list, filters)) |->
     Kept(list, filters)[Len(Kept(list, filters)) + 1 - i]]

\* gamesService.filterGames, lines 145-187.
FilterGames(list, filters) == Kept(list, filters)

\* The place of a tag in the order of Array.prototype.sort without a
\* comparator: by UTF-16 code units, capitals before small letters.
CodeUnitRank(tag) ==
  CASE tag = "" -> 0 [] tag = "Family" -> 1 [] tag = "abstract" -> 2
    [] OTHER -> 3

\* categories.add(cat) for each tag of a list: a Set keeps the tags in the
\* order they were first added.
RECURSIVE AddAll(_, _)
AddAll(tags, list) ==
  IF list = <<>> THEN tags
  ELSE AddAll(IF Head(list) \in Range(tags) THEN tags
              ELSE Append(tags, Head(list)), Tail(list))

\* Lines 191-194: the Set after games.forEach.
RECURSIVE CollectCategories(_, _)
CollectCategories(tags, list) ==
  IF list = <<>> THEN tags
  ELSE CollectCategories(
         IF Head(list).categories.defined
           THEN AddAll(tags, Head(list).categories.list) ELSE tags,
         Tail(list))

\* Array.from(categories).sort()
RECURSIVE SortTags(_)
SortTags(tags) ==
  IF tags = <<>> THEN <<>>
  ELSE LET rest == SortTags(SubSeq(tags, 1, Len(tags) - 1))
           last == tags[Len(tags)]
           NotAfter(x) == CodeUnitRank(x) <= CodeUnitRank(last)
           After(x) == ~NotAfter(x)
       IN SelectSeq(rest, NotAfter) \o <<last>> \o SelectSeq(rest, After)

\* gamesService.getUniqueCategories, lines 190-196.
GetUniqueCategories(list) == SortTags(CollectCategories(<<>>, list))

NoPureCall == [fn |-> "none"]

\* A caller calls filterGames, filters the result again with the same
\* filter and calls filterGames a second time with the same arguments.
FilterGamesCall(list, filters) ==
  /\ pureCall = NoPureCall
  /\ pureCall' =
       [fn |-> "filterGames", games |-> list, filters |-> filters,
        result |-> FilterGames(list, filters),
        again |-> FilterGames(FilterGames(list, filters), filters),
        second |-> FilterGames(list, filters)]
  /\ UNCHANGED notPureVars

\* A caller calls getUniqueCategories.
UniqueCategoriesCall(list) ==
  /\ pureCall = NoPureCall
  /\ pureCall' = [fn |-> "getUniqueCategories", games |-> list,
                  result |-> GetUniqueCategories(list)]
  /\ UNCHANGED notPureVars

----------------------------------------------------------------------------
(* gamesService.getGamesByIds batch by batch: src/src/services/games.ts     *)
(* lines 49-75.  Game ids are numbers here; the callers pass distinct ids   *)
(* (ownership.ts lines 151 and 192).                                        *)

\* for (let i = 0; i < gameIds.length; i += 30): the size of a batch.
BatchSize == 30

\* The lists of ids requested: runs of consecutive ids, from 1 or from 6.
RequestedLists ==
  {[i \in 1..n |-> i + first] : n \in 0..MaxRequested, first \in {0, 5}}

\* The games collections asked: empty, every id, every other id.
StoredGames ==
  { <<>>,
    [i \in 1..(MaxRequested + 5) |-> [id |-> i]],
    [i \in 1..((MaxRequested + 5) \div 2) |-> [id |-> 2 * i]] }

\* Mutant of Batches: every id goes into one batch.
BatchesOfAll(gameIds) == IF gameIds = <<>> THEN <<>> ELSE <<gameIds>>

\* batches, lines 55-58: gameIds.slice(i, i + 30) for i = 0, 30, ...
Batches(gameIds) ==
  [k \in 1..((Len(gameIds) + BatchSize - 1) \div BatchSize) |->
     SubSeq(gameIds, (k - 1) * BatchSize + 1,
            IF k * BatchSize < Len(gameIds) THEN k * BatchSize
            ELSE Len(gameIds))]

\* query(gamesRef, where('__name__', 'in', batch)): the documents found.
BatchQuery(gs, batch) ==
  LET InBatch(g) == g.id \in Range(batch)
  IN SelectSeq(gs, InBatch)

\* The loop of lines 60-72: the documents of every batch pushed in turn.
RECURSIVE QueryBatches(_, _)
QueryBatches(gs, batches) ==
  IF batches = <<>> THEN <<>>
  ELSE BatchQuery(gs, Head(batches)) \o QueryBatches(gs, Tail(batches))

\* gamesService.getGamesByIds: the queries sent and the games returned.
GetGamesByIdsInBatches(gs, gameIds) ==
  IF Len(gameIds) = 0 THEN [queries |-> <<>>, result |-> <<>>]
  ELSE [queries |-> Batches(gameIds),
        result |-> QueryBatches(gs, Batches(gameIds))]

\* A caller calls getGamesByIds, which returns.
GetGamesByIdsCall(gs, gameIds) ==
  /\ pureCall = NoPureCall
  /\ pureCall' = [fn |-> "getGamesByIds", gameIds |-> gameIds, games |-> gs,
                  queries |-> GetGamesByIdsInBatches(gs, gameIds).queries,
                  result |-> GetGamesByIdsInBatches(gs, gameIds).result]
  /\ UNCHANGED notPureVars

----------------------------------------------------------------------------
(* AuthProvider (src/unnamed/part_001 lines 40-142), householdsService      *)
(* (src/README.md lines 151-251) and HouseholdPage (src/src/pages/          *)
(* HomePage.tsx lines 150-342).  A household's document id is its place in  *)
(* the collection, 0 stands for no household; an invite code is the         *)
(* sequence of its characters.                                              *)

\* The codes generateInviteCode draws here: six characters of its alphabet.
InviteCodes ==
  {<<"A", "B", "C", "2", "3", "4">>, <<"X", "Y", "Z", "7", "8", "9">>}

\* What a caller passes as invite code.
EnteredCodes ==
  {<<"a", "b", "c", "2", "3", "4">>, <<"A", "b", "C", "2", "3", "4">>,
   <<"A", "B", "C", "2", "3", "4">>, <<"x", "y", "z", "7", "8", "9">>,
   <<"a", "b", "c", "2", "3", "3">>}

\* String.prototype.toUpperCase on the characters used.
UpperChar(c) ==
  CASE c = "a" -> "A" [] c = "b" -> "B" [] c = "c" -> "C"
    [] c = "x" -> "X" [] c = "y" -> "Y" [] c = "z" -> "Z" [] OTHER -> c

ToUpperCase(str) == [i \in 1..Len(str) |-> UpperChar(str[i])]

\* The display name signUp is given, and the one fetchUserProfile derives
\* (firebaseUser.displayName is null after an e-mail sign-up, so the part of
\* the e-mail address before the @).
EmailPrefix == "ann"
DisplayNames == {"Ann", EmailPrefix}

\* A document of the users collection.
UserDoc(displayName, householdId) ==
  [exists |-> TRUE, displayName |-> displayName, householdId |-> householdId]

\* setDoc(userRef, {householdId}, {merge: true}).
MergeHousehold(userDoc, householdId) ==
  IF userDoc.exists THEN [userDoc EXCEPT !.householdId = householdId]
  ELSE [exists |-> TRUE, displayName |-> Null, householdId |-> householdId]

SignedOut ==
  [signUp |-> "idle", listener |-> "idle", currentUser |-> FALSE,
   userProfile |-> NoDoc, entered |-> Null, pageError |-> Null]

\* householdsService.createHousehold: the collection after addDoc.
CreateHousehold(hs, inviteCode, userId) ==
  Append(hs, [inviteCode |-> inviteCode, members |-> {userId}])

\* where('inviteCode', '==', code): the documents found, in id order.
InviteCodeQuery(hs, code) ==
  LET HasCode(i) == hs[i].inviteCode = code
  IN  SelectSeq([i \in 1..Len(hs) |-> i], HasCode)

\* The variant of the lookup that compares the code as it was entered.
JoinLookupAsEntered(hs, inviteCode) == InviteCodeQuery(hs, inviteCode)

\* joinHouseholdByCode: the query with the upper-cased code.
JoinLookup(hs, inviteCode) == InviteCodeQuery(hs, ToUpperCase(inviteCode))

\* householdsService.joinHouseholdByCode: the collection afterwards and the
\* value returned (0 for null).
JoinHouseholdByCode(hs, inviteCode, userId) ==
  LET snapshot == JoinLookup(hs, inviteCode)
  IN  IF snapshot = <<>> THEN [households |-> hs, result |-> 0]
      ELSE [households |->
              [hs EXCEPT ![snapshot[1]].members = @ \cup {userId}],
            result |-> snapshot[1]]

NoJoin == [result |-> Null]

\* The page is shown to a signed-in user whose profile is loaded and has no
\* household (HomePage.tsx lines 175-186).
PageShown(u) ==
  /\ auth[u].currentUser
  /\ auth[u].listener = "done"
  /\ auth[u].userProfile.exists
  /\ auth[u].userProfile.householdId = 0

\* updateUserHousehold (part_001 lines 115-124) after a store call that
\* gave householdId: the users collection and the provider's state.
UpdateUserHousehold(u, householdId) ==
  /\ users' = [users EXCEPT ![u] = MergeHousehold(@, householdId)]
  /\ auth' = [auth EXCEPT ![u].userProfile.householdId = householdId,
                          ![u].pageError = Null]

PageFailed(u) == auth' = [auth EXCEPT ![u].pageError = StoreError]

FlowOutcomes == {"ok", "first call fails", "update fails"}

\* HouseholdPage.handleCreateHousehold with a non-blank name.
HandleCreateHousehold(u, code, outcome) ==
  /\ PageShown(u)
  /\ Len(households) < MaxHouseholds
  /\ IF outcome = "first call fails"
       THEN PageFailed(u) /\ UNCHANGED <<households, users>>
       ELSE /\ households' = CreateHousehold(households, code, u)
            /\ IF outcome = "update fails"
                 THEN PageFailed(u) /\ UNCHANGED users
                 ELSE UpdateUserHousehold(u, Len(households'))
  /\ UNCHANGED <<lastJoin>>
  /\ UNCHANGED notAccountVars

\* HouseholdPage.handleJoinHousehold with a non-blank code; the input's
\* onChange has upper-cased what was typed (HomePage.tsx line 320).
HandleJoinHousehold(u, typed, outcome) ==
  /\ PageShown(u)
  /\ IF outcome = "first call fails"
       THEN PageFailed(u) /\ UNCHANGED <<households, users>>
       ELSE LET inviteCode == ToUpperCase(typed)
                join == JoinHouseholdByCode(households, inviteCode, u)
            IN  /\ households' = join.households
                /\ IF join.result = 0
                     THEN /\ auth' = [auth EXCEPT ![u].pageError =
                                        "Invalid invite code"]
                          /\ UNCHANGED users
                     ELSE IF outcome = "update fails"
                       THEN PageFailed(u) /\ UNCHANGED users
                       ELSE UpdateUserHousehold(u, join.result)
  /\ UNCHANGED <<lastJoin>>
  /\ UNCHANGED notAccountVars

\* A caller calls householdsService.createHousehold.
CreateHouseholdCall(code, u) ==
  /\ Len(households) < MaxHouseholds
  /\ households' = CreateHousehold(households, code, u)
  /\ UNCHANGED <<users, auth, lastJoin>>
  /\ UNCHANGED notAccountVars

\* A caller calls householdsService.joinHouseholdByCode, which returns.
JoinHouseholdByCodeCall(inviteCode, u) ==
  LET join == JoinHouseholdByCode(households, inviteCode, u)
  IN  /\ households' = join.households
      /\ lastJoin' = [inviteCode |-> inviteCode, userId |-> u,
                      before |-> households, after |-> join.households,
                      result |-> join.result]
      /\ UNCHANGED <<users, auth>>
      /\ UNCHANGED notAccountVars

\* signUp up to its first await: createUserWithEmailAndPassword resolves,
\* the user is signed in and the onAuthStateChanged callback starts with
\* setCurrentUser(user) and its getDoc.
SignUpCreatesUser(u, displayName) ==
  /\ auth[u].signUp = "idle"
  /\ ~users[u].exists
  /\ auth' = [auth EXCEPT ![u].signUp = "created",
                          ![u].listener = "reading",
                          ![u].currentUser = TRUE,
                          ![u].entered = displayName]
  /\ UNCHANGED <<households, users, lastJoin>>
  /\ UNCHANGED notAccountVars

\* signUp's setDoc of the profile (part_001 lines 98-103): no merge.
SignUpWritesProfile(u) ==
  /\ auth[u].signUp = "created"
  /\ users' = [users EXCEPT ![u] = UserDoc(auth[u].entered, 0)]
  /\ auth' = [auth EXCEPT ![u].signUp = "done"]
  /\ UNCHANGED <<households, lastJoin>>
  /\ UNCHANGED notAccountVars

\* fetchUserProfile's getDoc resolves (part_001 lines 48-63).
ListenerReadsProfile(u) ==
  /\ auth[u].listener = "reading"
  /\ auth' = [auth EXCEPT
       ![u].listener = IF users[u].exists THEN "done" ELSE "writing",
       ![u].userProfile = IF users[u].exists THEN users[u] ELSE @]
  /\ UNCHANGED <<households, users, lastJoin>>
  /\ UNCHANGED notAccountVars

\* fetchUserProfile's setDoc of the new profile resolves and the callback
\* sets userProfile (part_001 lines 65-70, 79).
ListenerWritesProfile(u) ==
  /\ auth[u].listener = "writing"
  /\ users' = [users EXCEPT ![u] = UserDoc(EmailPrefix, 0)]
  /\ auth' = [auth EXCEPT ![u].listener = "done",
                          ![u].userProfile = UserDoc(EmailPrefix, 0)]
  /\ UNCHANGED <<households, lastJoin>>
  /\ UNCHANGED notAccountVars

----------------------------------------------------------------------------

Init ==
  /\ prefs = [id \in PrefIds |-> NoDoc]
  /\ calls = {}
  /\ currentUser = NoUser
  /\ preferences = [g \in GameIds |-> NoDoc]
  /\ loading = TRUE
  /\ prefError = Null
  /\ fetchPending = TRUE
  /\ hookLog = <<>>
  /\ returned = NoCall
  /\ latestSearchId = 0
  /\ searchResults = <<>>
  /\ searchError = Null
  /\ searching = FALSE
  /\ selectedGame = Null
  /\ loadingDetails = FALSE
  /\ searchCalls = {}
  /\ detailCalls = {}
  /\ lastResponse = NoResponse
  /\ clearedAt = NotCleared
  /\ games = <<>>
  /\ ownership = <<>>
  /\ adds = [c \in Clients |-> Idle(Null)]
  /\ dialog = DialogClosed
  /\ view = NoView
  /\ docCount = [games |-> 0, ownership |-> 0]
  /\ night = [games |-> <<>>, filters |-> InitialNightFilters,
              prefs |-> [g \in GameIds |-> NoDoc], isSpinning |-> FALSE,
              selectedGame |-> NoWinner, showResult |-> FALSE]
  /\ wheel = [containerWidth |-> 800, isAnimating |-> FALSE,
              aimedAt |-> Null, winner |-> NoWinner, startTimeout |-> FALSE,
              spinTimeout |-> FALSE, postTimeouts |-> {}]
  /\ spinLog = [draws |-> 0, first |-> NoWinner, handed |-> NoWinner]
  /\ proxy = [r \in ProxyRequests |-> ProxyIdle]
  /\ pureCall = NoPureCall
  /\ households = <<>>
  /\ users = [u \in UserIds |-> NoDoc]
  /\ auth = [u \in UserIds |-> SignedOut]
  /\ lastJoin = NoJoin

\* The preference service called concurrently by any clients.
NextPrefService ==
  \/ \E id \in CalledIds, r \in Reactions : SetReactionRead(id[1], id[2], r)
  \/ \E id \in CalledIds : ToggleFavoriteRead(id[1], id[2])
  \/ \E c \in calls : CallWrite(c)

SpecPrefService == Init /\ [][NextPrefService]_vars

Outcomes == {"ok", "fail"}

\* One session of useUserPreferences.
NextPrefHook ==
  \/ \E u \in SessionUsers : SignIn(u)
  \/ SignOut
  \/ \E o \in Outcomes : FetchPreferences(o)
  \/ \E g \in GameIds, o \in Outcomes : LikeGame(g, o)
  \/ \E g \in GameIds, o \in Outcomes : DislikeGame(g, o)
  \/ \E g \in GameIds, o \in Outcomes : ClearReaction(g, o)
  \/ \E g \in GameIds, o \in Outcomes : HookToggleFavorite(g, o)

SpecPrefHook == Init /\ [][NextPrefHook]_vars

\* One useBGGSearch and the catalogue service answering it in any order.
NextSearch ==
  \/ \E q \in Queries : Search(q)
  \/ \E c \in searchCalls, a \in Answers : SearchResponse(c, a)
  \/ \E b \in BggIds : SelectGame(b)
  \/ \E b \in detailCalls, a \in {"hits", "fail"} : DetailsResponse(b, a)
  \/ ClearSelection
  \/ ClearResults

SpecSearch == Init /\ [][NextSearch]_vars

\* The steps shared by every add-game operation, at most maxOwnerships rows
\* being created.
AddSteps(maxOwnerships) ==
  \/ \E c \in Clients, k \in 1..(Len(games) + 1) : CreateGame(c, k)
  \/ \E c \in Clients : CheckOwnership(c)
  \/ \E c \in Clients, k \in 1..(Len(ownership) + 1) :
       docCount.ownership < maxOwnerships /\ InsertOwnership(c, k)
  \/ \E c \in Clients : RefreshGames(c)

\* Clients adding games through useGames at the same time.
NextAddRace ==
  \/ \E c \in Clients, gd \in GamePayloads, h \in Households :
       AddGameWithOwnership(c, gd, h)
  \/ AddSteps(MaxRaceOwnerships)

SpecAddRace == Init /\ [][NextAddRace]_vars

\* Add-game operations that do not overlap in time: one starts when none is
\* running.  Client c1 adds through AddGameDialog, client c2 through
\* useGames; the lists of owned games are read between operations.
NextAddInTurn ==
  \/ \E gd \in GamePayloads, h \in Households :
       AllIdle /\ AddGameWithOwnership("c2", gd, h)
  \/ \E h \in Households : AllIdle /\ HandleSubmit(h)
  \/ \E b \in BggIds : AllIdle /\ SelectResult(b)
  \/ AllIdle /\ OwnedGamesQuery
  \/ \E h \in Households : AllIdle /\ HouseholdGamesQuery(h)
  \/ AddSteps(MaxOwnerships)

SpecAddInTurn == Init /\ [][NextAddInTurn]_vars

\* The names updateGame gives a game.
GameNames == {"Catan", "Azul"}

\* The whole life of the library: games are added through useGames, renamed
\* and deleted, ownership rows are deleted, the list of owned games is read.
NextLibrary ==
  \/ \E gd \in GamePayloads, h \in Households :
       AllIdle /\ AddGameWithOwnership("c2", gd, h)
  \/ AddSteps(MaxOwnerships)
  \/ \E g \in 1..docCount.games : DeleteGame(g)
  \/ \E g \in 1..docCount.games, name \in GameNames : UpdateGame(g, name)
  \/ \E o \in 1..docCount.ownership : DeleteOwnership(o)
  \/ OwnedGamesQuery

SpecLibrary == Init /\ [][NextLibrary]_vars

\* The candidate pool of GameNightPage under every list of games, filter
\* state and preference map.
NextNightPool ==
  \/ \E list \in NightLists : NightGamesLoaded(list)
  \/ \E f \in AllNightFilters : NightSetFilters(f)
  \/ \E m \in NightPrefs : NightPrefsLoaded(m)

SpecNightPool == Init /\ [][NextNightPool]_vars

\* The filter states set while the wheel is watched.
SpinFilters == {InitialNightFilters, NightFilters(5, NoHousehold, <<>>, "all")}

\* The lists of games useGames hands over while the wheel is watched.
SpinLists ==
  { <<>>,
    <<NightGame("g1", "h1"), NightGame("g2", "h1")>>,
    <<NightGame("g2", "h2"), NightGame("g1", "h1")>> }

\* Spin mode and Quick Pick of GameNightPage while its inputs change.
NextSpin ==
  \/ \E list \in SpinLists : NightGamesLoaded(list)
  \/ \E f \in SpinFilters : NightSetFilters(f)
  \/ \E w \in Widths : Resize(w)
  \/ HandleSpin
  \/ StartTimeoutFires
  \/ SpinTimeoutFires
  \/ \E g \in wheel.postTimeouts : PostTimeoutFires(g)
  \/ HandleQuickPick
  \/ HandleCloseResult

SpecSpin == Init /\ [][NextSpin]_vars

\* The filter states set while a spin is watched to its end: no filter, and
\* a host household that owns none of the games listed.
WatchedFilters ==
  {InitialNightFilters, NightFilters(NoCount, "h2", <<>>, "all")}

\* Spin mode while the filters change.
NextWatchedSpin ==
  \/ NightGamesLoaded(<<NightGame("g1", "h1"), NightGame("g2", "h1")>>)
  \/ \E f \in WatchedFilters : NightSetFilters(f)
  \/ HandleSpin
  \/ StartTimeoutFires
  \/ SpinTimeoutFires
  \/ \E g \in wheel.postTimeouts : PostTimeoutFires(g)
  \/ HandleCloseResult

\* A timeout that is set and not cleared fires.
FairSpecSpin ==
  /\ Init /\ [][NextWatchedSpin]_vars
  /\ WF_vars(StartTimeoutFires)
  /\ WF_vars(SpinTimeoutFires)
  /\ WF_vars(\E g \in wheel.postTimeouts : PostTimeoutFires(g))

\* The proxy handling requests, the upstream answering as it likes.
NextProxy ==
  \/ \E r \in ProxyRequests, method \in {"GET", "OPTIONS"}, id \in {"", "b1"} :
       ProxyRequest(r, method, id)
  \/ \E r \in ProxyRequests, answer \in UpstreamAnswers :
       UpstreamAnswer(r, answer)
  \/ \E r \in ProxyRequests : RetryDelayElapsed(r)

SpecProxy == Init /\ [][NextProxy]_vars

\* Every fetch settles and every timer fires.
FairSpecProxy ==
  /\ SpecProxy
  /\ \A r \in ProxyRequests :
       /\ WF_vars(\E answer \in UpstreamAnswers : UpstreamAnswer(r, answer))
       /\ WF_vars(RetryDelayElapsed(r))

\* filterGames and getUniqueCategories called with every list and filter.
NextFilter ==
  \/ \E list \in FilterLists, f \in FilterSpecs : FilterGamesCall(list, f)
  \/ \E list \in FilterLists : UniqueCategoriesCall(list)

SpecFilter == Init /\ [][NextFilter]_vars

\* getGamesByIds called with any list of ids on any collection.
NextGetGames ==
  \E gs \in StoredGames, gameIds \in RequestedLists :
    GetGamesByIdsCall(gs, gameIds)

SpecGetGames == Init /\ [][NextGetGames]_vars

\* Users sign up and set up their household on the HouseholdPage.
NextHouseholdPage ==
  \/ \E u \in UserIds, name \in DisplayNames : SignUpCreatesUser(u, name)
  \/ \E u \in UserIds : SignUpWritesProfile(u)
  \/ \E u \in UserIds : ListenerReadsProfile(u)
  \/ \E u \in UserIds : ListenerWritesProfile(u)
  \/ \E u \in UserIds, code \in InviteCodes, outcome \in FlowOutcomes :
       HandleCreateHousehold(u, code, outcome)
  \/ \E u \in UserIds, typed \in EnteredCodes, outcome \in FlowOutcomes :
       HandleJoinHousehold(u, typed, outcome)

SpecHouseholdPage == Init /\ [][NextHouseholdPage]_vars

\* The households service called by any callers.
NextHouseholds ==
  \/ \E code \in InviteCodes, u \in UserIds : CreateHouseholdCall(code, u)
  \/ \E inviteCode \in EnteredCodes, u \in UserIds :
       JoinHouseholdByCodeCall(inviteCode, u)

SpecHouseholds == Init /\ [][NextHouseholds]_vars

\* Users sign up while the auth-state listener runs.
NextSignUp ==
  \/ \E u \in UserIds, name \in DisplayNames : SignUpCreatesUser(u, name)
  \/ \E u \in UserIds : SignUpWritesProfile(u)
  \/ \E u \in UserIds : ListenerReadsProfile(u)
  \/ \E u \in UserIds : ListenerWritesProfile(u)

SpecSignUp == Init /\ [][NextSignUp]_vars

----------------------------------------------------------------------------
(* Properties of the preference service and hook *)

\* The reaction and the favorite flag a document slot stands for.
ReactionOf(doc) == IF doc.exists THEN doc.reaction ELSE Null
FavoriteOf(doc) == IF doc.exists THEN doc.isFavorite ELSE FALSE

CallId(c) == <<c.userId, c.gameId>>

\* C1: in every reachable state of the concurrently called service, no
\* stored preference has a neutral reaction together with isFavorite = false.
C1_NoNeutralUnfavoritedRecord ==
  \A id \in PrefIds :
    prefs[id].exists =>
      ~(prefs[id].reaction = Null /\ prefs[id].isFavorite = FALSE)

\* A call that read an existing document and computed the empty state has
\* returned, the document is gone, and another call on the pair is in flight.
C1_Witness ==
  /\ returned.op # "none"
  /\ returned.existing.exists
  /\ returned.reaction = Null /\ ~returned.isFavorite
  /\ ~prefs[CallId(returned)].exists
  /\ \E c \in calls : CallId(c) = CallId(returned)

\* C3: when a setReaction(dislike) call writes while the stored record of
\* its pair has isFavorite = true, the record stored afterwards is
\* {dislike, isFavorite = false}.
C3_DislikeClearsFavorite ==
  [][\A c \in calls :
       (/\ c \notin calls'
        /\ c.op = "setReaction" /\ c.arg = "dislike"
        /\ prefs[CallId(c)].exists /\ prefs[CallId(c)].isFavorite)
       => prefs'[CallId(c)] =
            [exists |-> TRUE, reaction |-> "dislike", isFavorite |-> FALSE]
    ]_vars

\* A setReaction(dislike) that read a favorited record has returned and the
\* record is {dislike, not favorite}.
C3_Witness ==
  /\ returned.op = "setReaction" /\ returned.arg = "dislike"
  /\ returned.existing.exists /\ returned.existing.isFavorite
  /\ prefs[CallId(returned)] =
       [exists |-> TRUE, reaction |-> "dislike", isFavorite |-> FALSE]

\* C5: when a toggleFavorite call writes, the reaction its pair has
\* afterwards (neutral for a deleted record) is the reaction the call read,
\* and the records of every other pair are unchanged.
C5_ToggleFavoriteFrame ==
  [][\A c \in calls :
       (c \notin calls' /\ c.op = "toggleFavorite")
       => /\ ReactionOf(prefs'[CallId(c)]) = ReactionOf(c.existing)
          /\ \A id \in PrefIds \ {CallId(c)} : prefs'[id] = prefs[id]
    ]_vars

\* A toggleFavorite that read {like, not favorite} has returned, the record
\* is {like, favorite}, and the other user's record of the game is there.
C5_Witness ==
  /\ returned.op = "toggleFavorite"
  /\ returned.existing =
       [exists |-> TRUE, reaction |-> "like", isFavorite |-> FALSE]
  /\ prefs[CallId(returned)] =
       [exists |-> TRUE, reaction |-> "like", isFavorite |-> TRUE]
  /\ \E id \in PrefIds \ {CallId(returned)} : prefs[id].exists

\* Two likeGame actions in a row on one game: positions i and i + 1.
LikeTwiceAt(i) ==
  /\ i + 1 <= Len(hookLog)
  /\ hookLog[i].op = "likeGame" /\ hookLog[i + 1].op = "likeGame"

ScenarioAt(i) ==
  /\ i + 3 <= Len(hookLog)
  /\ hookLog[i].op = "likeGame"
  /\ hookLog[i + 1].op = "toggleFavorite"
  /\ hookLog[i + 2].op = "dislikeGame"
  /\ hookLog[i + 3].op = "toggleFavorite"
  /\ ~hookLog[i].before.exists

ScenarioFirstThree(i) ==
  /\ hookLog[i].after =
       [exists |-> TRUE, reaction |-> "like", isFavorite |-> FALSE]
  /\ hookLog[i + 1].after =
       [exists |-> TRUE, reaction |-> "like", isFavorite |-> TRUE]
  /\ hookLog[i + 2].after =
       [exists |-> TRUE, reaction |-> "dislike", isFavorite |-> FALSE]

\* C4 as claimed: like, toggleFavorite, dislike, toggleFavorite from no
\* record store {like, false}, {like, true}, {dislike, false} and then
\* delete the record.
C4_ScenarioEndsDeleted ==
  \A i \in 1..MaxLog :
    ScenarioAt(i) =>
      ScenarioFirstThree(i) /\ ~hookLog[i + 3].after.exists

\* C4, amended: the same sequence stores {like, false}, {like, true},
\* {dislike, false} and then {dislike, true}: the last toggleFavorite sets
\* the favorite flag of the disliked game and the record stays.
C4_Scenario ==
  \A i \in 1..MaxLog :
    ScenarioAt(i) =>
      /\ ScenarioFirstThree(i)
      /\ hookLog[i + 3].after =
           [exists |-> TRUE, reaction |-> "dislike", isFavorite |-> TRUE]

\* The four actions have run in a row from no record.
C4_Witness ==
  \E i \in 1..MaxLog :
    /\ ScenarioAt(i)
    /\ hookLog[i + 3].after.exists
    /\ prefs[<<currentUser, hookLog[i].gameId>>] = hookLog[i + 3].after

\* C14: when the store call behind likeGame, dislikeGame, clearReaction or
\* toggleFavorite fails, the in-memory preference map stays what it was,
\* the error of the hook is set to a message and the action's promise
\* resolves: no exception escapes.
C14_FailureLeavesMapAndSetsError ==
  [][(hookLog' # hookLog /\ hookLog' # <<>>
        /\ hookLog'[Len(hookLog')].op = "failed") =>
       /\ preferences' = preferences
       /\ prefs' = prefs
       /\ prefError' = StoreError
       /\ ~hookLog'[Len(hookLog')].rejected]_vars

\* A toggleFavorite has failed over a map that holds a liked game.
C14_Witness ==
  /\ hookLog # <<>>
  /\ hookLog[1].op = "failed" /\ hookLog[1].action = "toggleFavorite"
  /\ hookLog[1].mem.exists
  /\ preferences[hookLog[1].gameId] = hookLog[1].mem
  /\ prefError = StoreError

----------------------------------------------------------------------------
(* Properties of useBGGSearch *)

\* C6: the response of a search that a later search has superseded changes
\* neither searchResults, error nor searching, in whatever order responses
\* arrive; the response of the latest search sets them from its own answer,
\* so once both have resolved the state shown is the later search's.
C6_StaleResponseDiscarded ==
  [][\A c \in searchCalls :
       c \notin searchCalls' =>
         IF c.searchId < latestSearchId
           THEN /\ searchResults' = searchResults
                /\ searchError' = searchError
                /\ searching' = searching
           ELSE /\ searchResults' =
                     (IF lastResponse'.answer = "hits"
                        THEN <<c.query>> ELSE <<>>)
                /\ lastResponse'.answer = "fail"
                     => searchError' = "Search failed"
                /\ lastResponse'.answer # "fail"
                     => searchError' = searchError
                /\ searching' = FALSE
    ]_vars

\* Search A answered with hits after the later search B had resolved: no
\* call is awaited and the hits shown are B's, not A's.
C6_Witness ==
  /\ lastResponse.searchId >= 1
  /\ lastResponse.searchId < latestSearchId
  /\ lastResponse.answer = "hits"
  /\ searchCalls = {}
  /\ searchResults # <<>>
  /\ searchResults # <<lastResponse.query>>
  /\ ~searching

\* The rows of the store for a pair of game and household.
RowsOf(gameId, householdId) ==
  Len(OwnershipsOf(ownership, gameId, householdId))

\* The games and households some row of the store names.
RowGames == {ownership[i].gameId : i \in 1..Len(ownership)}
RowHouseholds == {ownership[i].householdId : i \in 1..Len(ownership)}

\* C7: when add-game operations do not overlap in time, every pair of game
\* and household has at most one ownership row, since an add for a pair
\* that has a row fails and inserts nothing.
C7_AtMostOneRowPerPair ==
  \A g \in RowGames, h \in RowHouseholds : RowsOf(g, h) <= 1

\* C8: the ownership insert of an add-game operation that has passed the
\* householdOwnsGame check writes one more row for its pair whatever the
\* store holds by then, so two overlapping adds of a pair both insert.
C8_InsertAfterCheckAlwaysWrites ==
  [][\A c \in Clients :
       (adds[c].pc = "insert" /\ adds'[c].pc # "insert") =>
         Len(OwnershipsOf(ownership', adds[c].game.id, adds[c].householdId))
           = RowsOf(adds[c].game.id, adds[c].householdId) + 1]_vars

\* Two rows of one pair, written by two overlapping adds of useGames.
C8_Witness ==
  \E g \in RowGames, h \in RowHouseholds : RowsOf(g, h) = 2

\* C9: getOrCreateGame with a bggId some stored game has returns a stored
\* game of that bggId with created false and inserts nothing; with no
\* bggId, or one no stored game has, it inserts exactly one game, leaves
\* the stored ones as they are and returns the new one with created true.
C9_GetOrCreateGame ==
  [][\A c \in Clients :
       /\ (adds[c].pc = "idle" /\ adds'[c].pc # "idle") =>
            LET gd == adds'[c].gameData
                stored == /\ gd.bggId # NoBgg
                          /\ \E g \in Range(games) : g.bggId = gd.bggId
            IN /\ games' = games
               /\ stored => /\ adds'[c].pc = "check"
                            /\ adds'[c].created = FALSE
                            /\ adds'[c].game \in Range(games)
                            /\ adds'[c].game.bggId = gd.bggId
               /\ ~stored => adds'[c].pc = "create"
       /\ (adds[c].pc = "create" /\ adds'[c].pc # "create") =>
            /\ Len(games') = Len(games) + 1
            /\ Range(games) \subseteq Range(games')
            /\ adds'[c].pc = "check"
            /\ adds'[c].created = TRUE
            /\ adds'[c].game \in Range(games') \ Range(games)
            /\ adds'[c].game.bggId = adds[c].gameData.bggId
            /\ adds'[c].game.name = adds[c].gameData.name]_vars

\* One call has returned a stored game, another a game it created.
C9_Witness ==
  \E c, d \in Clients :
    /\ adds[c].pc = "check" /\ ~adds[c].created
    /\ adds[c].game \in Range(games)
    /\ adds[d].pc = "check" /\ adds[d].created

\* The households with a row for the game in the whole store.
OwnersOf(gameId) ==
  {ownership[i].householdId :
     i \in {j \in 1..Len(ownership) : ownership[j].gameId = gameId}}

\* C10: every OwnedGame that getOwnedGames or getOwnedGamesByHousehold
\* returns carries as ownerCount the number of distinct households with an
\* ownership row for its game in the whole store.
C10_OwnerCountIsDistinctHouseholds ==
  view # NoView =>
    \A i \in 1..Len(view.list) :
      view.list[i].ownerCount = Cardinality(OwnersOf(view.list[i].id))

\* C11: whatever creates, updates and deletes of games and ownership rows
\* have run, every ownership row names a game the games collection holds
\* and a household that exists.
C11_OwnershipRefersToGameAndHousehold ==
  \A i \in 1..Len(ownership) :
    /\ \E g \in Range(games) : g.id = ownership[i].gameId
    /\ ownership[i].householdId \in Households

\* C12: the game handed to onSpinComplete and shown in the result dialog is
\* the one drawn when the spin started, and one spin draws once.
C12_OneDrawPerSpin ==
  /\ spinLog.draws <= 1
  /\ spinLog.handed # NoWinner => spinLog.handed = spinLog.first

\* The ids of the entries of a list, in order.
IdsOf(list) == [i \in 1..Len(list) |-> list[i].id]

\* The first entry of a list with the id.
FirstOf(list, id) ==
  list[CHOOSE i \in 1..Len(list) :
         /\ list[i].id = id
         /\ \A j \in 1..(i - 1) : list[j].id # id]

\* C13: the candidate pool never holds two entries of one game id, and the
\* entry of a game is the first one of that id in the list of useGames;
\* with no filter set the pool holds every game of the list once.
C13_PoolHasOneEntryPerGame ==
  LET pool == Pool(night)
  IN /\ \A i, j \in 1..Len(pool) : pool[i].id = pool[j].id => i = j
     /\ \A i \in 1..Len(pool) : pool[i] = FirstOf(night.games, pool[i].id)
     /\ night.filters = InitialNightFilters =>
          Range(IdsOf(pool)) = Range(IdsOf(night.games))

\* Two households own g1 and the pool holds g1 once, as the first row.
C13_Witness ==
  /\ Len(night.games) = 2
  /\ night.games[1].id = "g1" /\ night.games[2].id = "g1"
  /\ night.games[1].ownership.householdId # night.games[2].ownership.householdId
  /\ Pool(night) = <<night.games[1]>>

----------------------------------------------------------------------------
(* Properties of the game-details proxy *)

\* The handler of the request is in its polling loop.
Polling(r) == proxy[r].pc \in {"fetching", "waiting"}

\* Every upstream answer the handler of the request has had is a 202.
OnlyQueued(r) ==
  \A i \in 1..Len(proxy[r].answers) : proxy[r].answers[i] = 202

\* C15: the handler makes at most 5 upstream requests and polls on only
\* while every answer was a 202; after 5 answers 202 it replies 504 'timed
\* out'; and every request it has begun to poll for gets its reply.
C15_ProxyTerminatesWithinFiveRequests ==
  /\ [](\A r \in ProxyRequests :
          proxy[r].pc # "idle" =>
            /\ Len(proxy[r].answers) <= 5
            /\ Polling(r) => OnlyQueued(r)
            /\ (proxy[r].pc = "done" /\ Len(proxy[r].answers) = 5
                  /\ OnlyQueued(r)) =>
                 /\ proxy[r].status = 504
                 /\ proxy[r].message
                      = "BGG API timed out (too many 202 responses)")
  /\ \A r \in ProxyRequests : Polling(r) ~> (proxy[r].pc = "done")

\* Five answers 202 and the 504 reply.
C15_Witness ==
  \E r \in ProxyRequests :
    /\ proxy[r].pc = "done"
    /\ Len(proxy[r].answers) = 5 /\ OnlyQueued(r)
    /\ proxy[r].status = 504

----------------------------------------------------------------------------
(* Properties of filterGames and getUniqueCategories *)

FilterCalled == pureCall.fn = "filterGames"

\* C16: filtering the output of filterGames again with the same filter
\* gives that output.
C16_FilterIdempotent ==
  FilterCalled => pureCall.again = pureCall.result

\* A filter that drops one of two games has been applied twice.
C16_Witness ==
  /\ FilterCalled
  /\ Len(pureCall.games) = 2 /\ Len(pureCall.result) = 1
  /\ pureCall.again = pureCall.result

\* a is b with some entries left out, the others in their order.
RECURSIVE IsSubsequence(_, _)
IsSubsequence(a, b) ==
  IF a = <<>> THEN TRUE
  ELSE IF b = <<>> THEN FALSE
  ELSE IF Head(a) = Head(b) THEN IsSubsequence(Tail(a), Tail(b))
  ELSE IsSubsequence(a, Tail(b))

OnlyCategories(filters) ==
  /\ Len(filters.categories) > 0
  /\ filters.searchQuery = <<>> /\ filters.playerCount = 0
  /\ filters.householdId = "" /\ filters.householdIds = <<>>
  /\ filters.maxPlayTime = 0

\* The tags of a game: none when it has no category list.
TagsOf(game) ==
  IF game.categories.defined THEN Range(game.categories.list) ELSE {}

\* C18: with a category set S as the only filter, a game is in the output
\* of filterGames iff its category list shares a tag with S; a game with no
\* category list is never in it.
C18_CategoryFilter ==
  (FilterCalled /\ OnlyCategories(pureCall.filters)) =>
    LET Shares(game) ==
          TagsOf(game) \cap Range(pureCall.filters.categories) # {}
    IN /\ pureCall.result = SelectSeq(pureCall.games, Shares)
       /\ \A i \in 1..Len(pureCall.result) :
            pureCall.result[i].categories.defined

\* A game that shares one of two tags is kept, one with no list dropped.
C18_Witness ==
  /\ FilterCalled /\ OnlyCategories(pureCall.filters)
  /\ Len(pureCall.filters.categories) = 2
  /\ Len(pureCall.games) = 2 /\ Len(pureCall.result) = 1
  /\ ~pureCall.games[2].categories.defined
  /\ Cardinality(TagsOf(pureCall.result[1])
                   \cap Range(pureCall.filters.categories)) = 1

\* The households a filter specification names.
RequestedHouseholds(filters) ==
  Range(filters.householdIds)
    \cup (IF filters.householdId = "" THEN {} ELSE {filters.householdId})

\* C19: with households as the only filter, filterGames keeps exactly the
\* games whose ownership.householdId is one of the households requested;
\* with no household requested every game passes.
C19_HouseholdFilter ==
  (/\ FilterCalled
   /\ pureCall.filters.searchQuery = <<>>
   /\ pureCall.filters.playerCount = 0
   /\ pureCall.filters.categories = <<>>
   /\ pureCall.filters.maxPlayTime = 0) =>
    LET requested == RequestedHouseholds(pureCall.filters)
        Wanted(game) ==
          requested = {} \/ game.ownership.householdId \in requested
    IN pureCall.result = SelectSeq(pureCall.games, Wanted)

\* The tags that occur in the category lists of the games of a call.
TagsIn(list) == UNION {TagsOf(list[i]) : i \in 1..Len(list)}

\* C20: getUniqueCategories returns every tag of the games once, in
\* ascending order, nothing else, and no empty tag.
C20_UniqueSortedCategories ==
  pureCall.fn = "getUniqueCategories" =>
    LET out == pureCall.result
    IN /\ Range(out) = TagsIn(pureCall.games)
       /\ \A i, j \in 1..Len(out) :
            i < j => CodeUnitRank(out[i]) < CodeUnitRank(out[j])
       /\ "" \notin Range(out)

----------------------------------------------------------------------------
(* Households and user profiles                                             *)

\* The households that list user u as a member.
HouseholdsOf(u) == {i \in 1..Len(households) : u \in households[i].members}

\* C21: after any create-household and join-household flows of the users,
\* failed and retried ones included, each user id is in the members list of
\* at most one household.
C21_UserInAtMostOneHousehold ==
  \A u \in UserIds : Cardinality(HouseholdsOf(u)) <= 1

\* The households whose stored code is the upper-cased code of the last
\* joinHouseholdByCode call, as the collection was when it was called.
JoinMatches ==
  {i \in 1..Len(lastJoin.before) :
     lastJoin.before[i].inviteCode = ToUpperCase(lastJoin.inviteCode)}

\* C22 as stated: joining with any case variant of the stored code of a
\* household finds that household, adds the user to its members and
\* returns its id; a code matching no household returns null and changes
\* no household.
C22_JoinFindsTheHousehold ==
  lastJoin # NoJoin =>
    /\ \A h \in JoinMatches :
         /\ lastJoin.result = h
         /\ lastJoin.userId \in lastJoin.after[h].members
    /\ JoinMatches = {} =>
         lastJoin.result = 0 /\ lastJoin.after = lastJoin.before

\* C22: joinHouseholdByCode compares the upper-cased input with the stored
\* codes.  When households store that code, the call returns the id of the
\* first of them (of that household when it is the only one), the user is
\* a member of it afterwards and nothing else changes; when none does, it
\* returns null and changes no household.
C22_JoinByCodeIgnoresCase ==
  lastJoin # NoJoin =>
    IF JoinMatches = {}
      THEN lastJoin.result = 0 /\ lastJoin.after = lastJoin.before
      ELSE /\ lastJoin.result \in JoinMatches
           /\ \A h \in JoinMatches : lastJoin.result <= h
           /\ lastJoin.after =
                [lastJoin.before EXCEPT ![lastJoin.result].members =
                   @ \cup {lastJoin.userId}]

\* A code entered in lower case found the household that stores it in
\* upper case, and the caller was not a member of it before.
C22_Witness ==
  /\ lastJoin # NoJoin
  /\ lastJoin.inviteCode = <<"x", "y", "z", "7", "8", "9">>
  /\ lastJoin.result # 0
  /\ lastJoin.userId \notin lastJoin.before[lastJoin.result].members
  /\ lastJoin.userId \in lastJoin.after[lastJoin.result].members

\* C30: once signUp has completed, the stored profile of the user carries
\* the display name the user entered, whatever the interleaving of signUp's
\* profile write with the auth-state listener.
C30_SignUpKeepsDisplayName ==
  \A u \in UserIds :
    auth[u].signUp = "done" =>
      users[u].exists /\ users[u].displayName = auth[u].entered

----------------------------------------------------------------------------
(* The Game Night pool and the households allowed                           *)

\* The households the filters allow: every one while no host is set.
AllowedHouseholds ==
  IF night.filters.hostHouseholdId = NoHousehold THEN Households
  ELSE {night.filters.hostHouseholdId}
         \cup Range(night.filters.additionalHouseholdIds)

\* The entry passes the player-count and the preference filter.
PassesCountAndPrefs(g) ==
  /\ night.filters.playerCount # NoCount =>
       /\ night.filters.playerCount >= g.minPlayers
       /\ night.filters.playerCount <= g.maxPlayers
  /\ night.filters.preferencesFilter = "liked" =>
       night.prefs[g.id].exists /\ night.prefs[g.id].reaction = "like"
  /\ night.filters.preferencesFilter = "favorites" =>
       night.prefs[g.id].exists /\ night.prefs[g.id].isFavorite

\* C23: every game owned by at least one allowed household that passes the
\* player-count and preference filters is in the candidate pool, also when
\* a row of a household that is not allowed comes first in the list.
C23_AllowedGamesAreInPool ==
  \A i \in 1..Len(night.games) :
    (/\ night.games[i].ownership.householdId \in AllowedHouseholds
     /\ PassesCountAndPrefs(night.games[i]))
      => night.games[i].id \in Range(IdsOf(Pool(night)))

\* C24: every spin that starts eventually finishes: whenever isSpinning is
\* true, onSpinComplete is eventually called and isSpinning is false again,
\* also when the filters change while the wheel is animating, a change that
\* empties the list included.
C24_SpinEventuallyFinishes ==
  night.isSpinning ~> (~night.isSpinning /\ spinLog.handed # NoWinner)

----------------------------------------------------------------------------
(* useBGGSearch: clearing the results                                       *)

\* C25: once the results are cleared (clearResults, or search with an empty
\* or blank query), searchResults stays empty until a new non-blank search
\* is issued, which increments latestSearchIdRef: the response of a search
\* issued before the clear never fills the results after it.
C25_ClearedResultsStayEmpty ==
  clearedAt = latestSearchId => searchResults = <<>>

----------------------------------------------------------------------------
(* setReaction next to toggleFavorite                                       *)

\* The document the write of call c leaves when it follows its read.
DocAfter(c) == WriteDoc(c.existing, c.reaction, c.isFavorite, Exists(c.existing))

\* Call c writes right after call d has written, the two are a setReaction
\* (not a dislike, which clears the flag) and a toggleFavorite on one pair,
\* and c read either what d read or what d wrote.
LastOfPair(d, c) ==
  /\ d.op # "none"
  /\ {d.op, c.op} = {"setReaction", "toggleFavorite"}
  /\ d.userId = c.userId /\ d.gameId = c.gameId
  /\ d.arg # "dislike" /\ c.arg # "dislike"
  /\ c.existing \in {d.existing, DocAfter(d)}

\* The record with the reaction of the setReaction call of the two and the
\* favorite flag of the snapshot of the first, toggled.
BothApplied(d, c) ==
  LET reaction == IF d.op = "setReaction" THEN d.arg ELSE c.arg
      isFavorite == ToggleFavoriteFlag(d.existing)
  IN IF IsEmptyPref(reaction, isFavorite) THEN NoDoc
     ELSE PrefDoc(reaction, isFavorite)

\* C26: a setReaction and a toggleFavorite on the same (user, game) pair
\* both take effect whatever the interleaving of their reads and writes:
\* once both have completed, the stored record carries the new reaction and
\* the toggled favorite flag.
C26_ReactionAndFavoriteBothApplied ==
  [][\A c \in calls :
       (calls' = calls \ {c} /\ returned' = c /\ LastOfPair(returned, c))
         => prefs'[getPreferenceId(c.userId, c.gameId)]
              = BothApplied(returned, c)]_vars

----------------------------------------------------------------------------
(* useUserPreferences: the in-memory map and the stored records             *)

\* The preferences of the signed-in user were loaded and no store call of
\* the hook has failed since.
LoadedAndNoFailure ==
  currentUser # NoUser /\ ~fetchPending /\ prefError = Null

\* C27: after the initial load and any sequence of non-overlapping,
\* successful likeGame, dislikeGame, clearReaction and toggleFavorite
\* actions of one signed-in user, the in-memory map of the hook equals the
\* stored records of that user: a game has an entry if and only if a record
\* exists, with the same reaction and favorite flag.
C27_MapEqualsStoredRecords ==
  LoadedAndNoFailure =>
    \A g \in GameIds :
      preferences[g] = prefs[getPreferenceId(currentUser, g)]

\* After actions on it, one game has a record and an entry and the other,
\* whose record an action deleted, has none.
C27_Witness ==
  /\ LoadedAndNoFailure
  /\ Len(hookLog) >= 2
  /\ hookLog[Len(hookLog)].op # "failed"
  /\ Exists(hookLog[Len(hookLog)].before)
  /\ ~Exists(hookLog[Len(hookLog)].after)
  /\ \E g \in GameIds : Exists(preferences[g])

----------------------------------------------------------------------------
(* getGamesByIds                                                            *)

GetGamesCalled == pureCall # NoPureCall /\ pureCall.fn = "getGamesByIds"

\* The queries of the call that hold the id.
QueriesWith(id) ==
  {k \in 1..Len(pureCall.queries) : id \in Range(pureCall.queries[k])}

\* C28: getGamesByIds never sends a membership query with more than 30
\* identifiers, queries every requested identifier in exactly one batch and
\* returns exactly the stored games whose id is requested, each once; an
\* empty request returns an empty list without any query.
C28_GetGamesByIdsBatches ==
  GetGamesCalled =>
    /\ \A k \in 1..Len(pureCall.queries) :
         Len(pureCall.queries[k]) \in 1..30
    /\ \A id \in Range(pureCall.gameIds) : Cardinality(QueriesWith(id)) = 1
    /\ \A k \in 1..Len(pureCall.queries) :
         Range(pureCall.queries[k]) \subseteq Range(pureCall.gameIds)
    /\ Range(pureCall.result) =
         {g \in Range(pureCall.games) : g.id \in Range(pureCall.gameIds)}
    /\ Cardinality(Range(pureCall.result)) = Len(pureCall.result)
    /\ pureCall.gameIds = <<>> =>
         pureCall.queries = <<>> /\ pureCall.result = <<>>

\* A request of more than two full batches, of which some ids are stored
\* and some are not.
C28_Witness ==
  /\ GetGamesCalled
  /\ Len(pureCall.gameIds) > 60
  /\ Len(pureCall.queries) = 3
  /\ pureCall.result # <<>>
  /\ Len(pureCall.result) < Len(pureCall.gameIds)

----------------------------------------------------------------------------
(* getOwnedGames and rows whose game is gone                                *)

\* The game of the ownership row is in the games collection.
Resolvable(o) == \E g \in Range(games) : g.id = o.gameId

\* The entries of a list of OwnedGame made from the ownership row.
EntriesOf(list, o) == {i \in 1..Len(list) : list[i].ownership = o}

\* C29: getOwnedGames returns exactly one OwnedGame for every ownership row
\* whose game exists in the store and none for a row whose game cannot be
\* resolved; such a row raises no error and the other rows are returned.
C29_OneOwnedGamePerResolvableRow ==
  [][(view' # view /\ view'.scope = "all") =>
       /\ \A o \in Range(ownership) :
            Cardinality(EntriesOf(view'.list, o)) =
              IF Resolvable(o) THEN 1 ELSE 0
       /\ \A i \in 1..Len(view'.list) :
            view'.list[i].ownership \in Range(ownership)]_vars

\* getOwnedGames has returned the rows of a game that exists and left out
\* the row of a game that was deleted.
C29_Witness ==
  /\ view.scope = "all"
  /\ view.list = GetOwnedGames(games, ownership)
  /\ view.list # <<>>
  /\ \E o \in Range(ownership) : ~Resolvable(o)

====
